---- MODULE Spec2Model ----
(***************************************************************************)
(* State-machine model of the LEGO EV3 peripheral of scratch-vm            *)
(* (src/extensions/scratch3_ev3): the EV3 session object, its EV3Motor     *)
(* objects, the coast timeouts, the polling interval and the send path     *)
(* through the rate limiter.                                               *)
(*                                                                         *)
(* JavaScript values are represented as follows.                           *)
(*   null                 Null (0); object ids, uids and interval ids are  *)
(*                        positive                                         *)
(*   undefined (in a byte array)   undefined (-1); bytes are 0..255        *)
(*   undefined (a port label)      the string "undefined"                  *)
(*   a float32 read by DataView.getFloat32   its IEEE-754 fields           *)
(*   a number that may be NaN (motor position)   [nan, v]                  *)
(* Array index i of the source is index i + 1 of a TLA+ sequence.          *)
(***************************************************************************)
EXTENDS Integers, Sequences, FiniteSets, TLC

\* ------------------------------------------------------------------------
\* Bounds of the model
\* ------------------------------------------------------------------------
\* pending coast timeouts at any time
MaxTimeouts == 2
\* registered polling intervals at any time
MaxIntervals == 2
\* polling cycles (value of _pollingCounter) explored outside SpecPoll
MaxPoll == 2
\* polling cycles explored by SpecPoll: beyond two discovery periods
MaxPollDeep == 41
\* sends of one window explored by SpecMotor and SpecOffline
MaxSends == 2
\* pending coast timeouts at any time in SpecSend and SpecOffline
MaxTimeoutsSend == 1
\* bytes of the byteCommands given to generateCommand in SpecCommand
MaxPayload == 260
MaxInFlight == 2

\* ------------------------------------------------------------------------
\* Program constants and enums
\* ------------------------------------------------------------------------
Null == 0
undefined == -1

BTSendRateMax == 40

ONE_BYTE == 129
TWO_BYTES == 130
FOUR_BYTES == 131
GLOBAL_VARIABLE_ONE_BYTE == 225
GLOBAL_CONSTANT_INDEX_0 == 32
GLOBAL_VARIABLE_INDEX_0 == 96

DIRECT_COMMAND_REPLY == 0
DIRECT_COMMAND_NO_REPLY == 128
DIRECT_REPLY == 2

OPOUTPUT_TIME_SPEED == 175
OPOUTPUT_STOP == 163
OPOUTPUT_GET_COUNT == 179
OPSOUND == 148
OPSOUND_CMD_TONE == 1
OPSOUND_CMD_STOP == 0
OPINPUT_DEVICE_LIST == 152
OPINPUT_READSI == 157

LAYER == 0
COAST == 0
BRAKE == 1
RAMP == 50
DO_NOT_CHANGE_TYPE == 0
MAX_DEVICES == 32

\* this._pollingInterval, this._coastDelay, the literal 20 of _pollValues
pollingInterval == 150
coastDelay == 1000
DiscoveryPeriod == 20

\* Ev3Device[code]: the device label of a firmware device-type code, or
\* "undefined" when the table has no such key (also for an undefined code).
Ev3Device(code) ==
    CASE code = 29 -> "color"
      [] code = 30 -> "ultrasonic"
      [] code = 32 -> "gyro"
      [] code = 16 -> "touch"
      [] code = 8 -> "mediumMotor"
      [] code = 7 -> "largeMotor"
      [] code = 126 -> "none"
      [] code = 125 -> "none"
      [] OTHER -> "undefined"

\* Ev3Mode[label]: a number, or undefined when the table has no such key.
Ev3Mode(label) ==
    CASE label = "touch" -> 0
      [] label = "color" -> 1
      [] label = "ultrasonic" -> 1
      [] label = "none" -> 0
      [] OTHER -> undefined

\* Ev3Label[label]: the sensor bucket of a device label, or "undefined".
Ev3Label(label) ==
    CASE label = "touch" -> "button"
      [] label = "color" -> "brightness"
      [] label = "ultrasonic" -> "distance"
      [] OTHER -> "undefined"

\* ------------------------------------------------------------------------
\* JavaScript helpers
\* ------------------------------------------------------------------------
Min(a, b) == IF a < b THEN a ELSE b
Max(a, b) == IF a > b THEN a ELSE b

\* array[i] for a byte array: undefined beyond its length.
At(array, i) == IF i + 1 \in 1..Len(array) THEN array[i + 1] ELSE undefined

\* array[i] for an array of port labels: "undefined" beyond its length.
PortAt(ports, i) == IF i + 1 \in 1..Len(ports) THEN ports[i + 1] ELSE "undefined"

\* Array.prototype.includes(undefined): only the elements below length count.
includesUndefined(ports) == \E k \in 1..Len(ports) : ports[k] = "undefined"

\* x & 0xFF for an integer x >= 0.
Low8(x) == x % 256

\* (x >> 8 && 0xFF): && yields its left operand when that is falsy (0) and its
\* right operand (0xFF) otherwise.
ShiftAndAnd(x) == IF (x \div 256) = 0 THEN 0 ELSE 255

\* new Uint8Array([..]) turns an undefined element into 0.
ToUint8(b) == IF b = undefined THEN 0 ELSE b

\* DataView.getFloat32(0, true) of four bytes: the IEEE-754 single-precision
\* fields of the little-endian word.
getFloat32(b0, b1, b2, b3) ==
    [sign |-> b3 \div 128,
     exp  |-> (b3 % 128) * 2 + (b2 \div 128),
     frac |-> (b2 % 128) * 65536 + b1 * 256 + b0]

\* The number 0 and the number 1 as floats.
FloatZero == [sign |-> 0, exp |-> 0, frac |-> 0]
FloatOne == [sign |-> 0, exp |-> 127, frac |-> 0]

\* Truthiness of a number: 0, -0 and NaN are falsy.
Truthy(f) == ~(f.exp = 0 /\ f.frac = 0) /\ ~(f.exp = 255 /\ f.frac # 0)

\* (value ? value : 0)
ValueOrZero(f) == IF Truthy(f) THEN f ELSE FloatZero

\* A JavaScript number that is an integer, and NaN.
Num(v) == [nan |-> FALSE, v |-> v]
NaN == [nan |-> TRUE, v |-> 0]

\* ------------------------------------------------------------------------
\* State
\* ------------------------------------------------------------------------
VARIABLES
    bt,                 \* this._bt and the state of its socket:
                        \* "null" | "open" | "connected" | "closed"
    sensorPorts,        \* this._sensorPorts: <<>> or four labels
    motorPorts,         \* this._motorPorts: <<>> or four labels
    sensors,            \* this._sensors: [distance, brightness, buttons]
    motors,             \* this._motors: four entries, Null or an EV3Motor (object id)
    heap,               \* the EV3Motor objects, by object id
    pollingIntervalID,  \* this._pollingIntervalID: Null or an interval id
    intervals,          \* the intervals registered with window.setInterval: the
                        \* milliseconds until each fires next, by interval id
    pollingCounter,     \* this._pollingCounter
    updateDevices,      \* this._updateDevices (undefined, which is falsy, at construction)
    rateLimiter,        \* this._rateLimiter: [count, age]
    timeouts,           \* the pending setTimeout callbacks of coastAfter, in firing order
    sends,              \* history: the send() calls of the last operation
    last,               \* history: the last operation, its input and its pre-state
    discovered,         \* history: a device list was parsed since construction / reset()
    ticksSinceDiscovery, \* history: connected polls since the last device-list poll
    windowWrites,       \* history: messages written through the rate limiter in
                        \* its current window
    polledSinceConnect, \* history: _pollValues has run on the connection that is up
    inFlight            \* the brick: the kinds of the queries written to it and not
                        \* yet answered, oldest first; Untracked where the replies
                        \* are free inputs

vars == <<bt, sensorPorts, motorPorts, sensors, motors, heap, pollingIntervalID,
          intervals, pollingCounter, updateDevices, rateLimiter, timeouts, sends,
          last, discovered, ticksSinceDiscovery, windowWrites, polledSinceConnect,
          inFlight>>

Ports == 0..3
Objs == 1..(4 + MaxTimeouts)
IntervalIds == 1..(MaxIntervals + 1)
Uids == 1..(MaxTimeouts + 1)

\* A slot of the heap that holds no object.
FreeObj ==
    [index |-> 0, type |-> "free", direction |-> 1, power |-> 0,
     position |-> Num(0), commandID |-> Null]

\* new EV3Motor(parent, index, type)
NewEV3Motor(index, type) ==
    [index |-> index, type |-> type, direction |-> 1, power |-> 50,
     position |-> Num(0), commandID |-> Null]

NoSensors == [distance |-> FloatZero, brightness |-> FloatZero,
              buttons |-> <<FloatZero, FloatZero, FloatZero, FloatZero>>]
NoMotors == <<Null, Null, Null, Null>>

\* The objects something still refers to: the motor table and the closures of
\* the pending timeouts.  The others are garbage and their slots are free.
Referenced(m, ts) ==
    {m[k] : k \in 1..4} \cup {ts[k].motor : k \in 1..Len(ts)}
Collect(h, m, ts) ==
    [o \in Objs |-> IF o \in Referenced(m, ts) THEN h[o] ELSE FreeObj]

\* The n-th smallest (n = 0, 1, ..) element of a set of integers.
NthSmallest(S, n) == CHOOSE x \in S : Cardinality({y \in S : y < x}) = n

\* uid(): a token no live closure or motor holds.
uid ==
    NthSmallest(Uids \ ({timeouts[k].commandId : k \in 1..Len(timeouts)}
                        \cup {heap[o].commandID : o \in Objs}), 0)

\* isConnected()
isConnected == bt = "connected"

\* RateLimiter.okayToSend(): the count of sends in the current one-second
\* window; the window is restarted lazily once it has elapsed.
WindowMs == 1000
okayToSend(rl) ==
    LET cur == IF rl.age >= WindowMs THEN [count |-> 0, age |-> 0] ELSE rl
    IN  IF cur.count < BTSendRateMax
        THEN [ok |-> TRUE, rl |-> [cur EXCEPT !.count = @ + 1]]
        ELSE [ok |-> FALSE, rl |-> cur]

\* A send() that asks the rate limiter and writes whatever it answers.
sendUnchecked(connected, rl, message, useLimiter) ==
    IF ~connected
    THEN [rl |-> rl,
          call |-> [message |-> message, useLimiter |-> useLimiter, written |-> FALSE]]
    ELSE [rl |-> IF useLimiter THEN okayToSend(rl).rl ELSE rl,
          call |-> [message |-> message, useLimiter |-> useLimiter, written |-> TRUE]]
\* A send() that asks the rate limiter before it tests the connection.
sendLimiterFirst(connected, rl, message, useLimiter) ==
    LET r == IF useLimiter THEN okayToSend(rl) ELSE [ok |-> TRUE, rl |-> rl]
    IN  [rl |-> r.rl,
         call |-> [message |-> message, useLimiter |-> useLimiter,
                   written |-> connected /\ r.ok]]
\* send(message, useLimiter): the limiter after the call and the record of
\* the call; written says whether the message reached this._bt.sendMessage.
send(connected, rl, message, useLimiter) ==
    IF ~connected
    THEN [rl |-> rl,
          call |-> [message |-> message, useLimiter |-> useLimiter, written |-> FALSE]]
    ELSE IF useLimiter
    THEN LET r == okayToSend(rl)
         IN  [rl |-> r.rl,
              call |-> [message |-> message, useLimiter |-> useLimiter, written |-> r.ok]]
    ELSE [rl |-> rl,
          call |-> [message |-> message, useLimiter |-> useLimiter, written |-> TRUE]]

\* generateCommand(type, byteCommands, allocation)
generateCommand(type, byteCommands, allocation) ==
    LET len == Len(byteCommands) + 5
    IN  <<Low8(len), ShiftAndAnd(len), 0, 0, type, Low8(allocation),
          ShiftAndAnd(allocation)>> \o byteCommands

\* History: the messages written through the rate limiter in its current
\* window, after an operation that made the calls `calls` and left the rate
\* limiter as `rl`.  The age of the window only falls when a window starts.
writesInWindow(rl, calls) ==
    LET n == Cardinality({k \in 1..Len(calls) : calls[k].useLimiter /\ calls[k].written})
    IN  IF rl.age < rateLimiter.age THEN n ELSE windowWrites + n

\* History: after an operation, whether _pollValues has run on the connection
\* that is up; false while no connection is up.
polledAfter ==
    IF bt' # "connected" \/ bt # "connected" THEN FALSE
    ELSE IF last'.op = "pollValues" THEN TRUE
    ELSE polledSinceConnect

\* The brick answers the queries written to it in order.  After an
\* operation: a query of _pollValues that was written joins the queue, a
\* reply leaves it, and the queue is lost with the connection.
Untracked == <<"untracked">>
queryKind(msg) == IF msg[8] = OPINPUT_DEVICE_LIST THEN "deviceList" ELSE "values"
inFlightAfter ==
    IF inFlight = Untracked THEN Untracked
    ELSE IF bt' # "connected" THEN <<>>
    ELSE IF last'.op = "pollValues" /\ sends' # <<>> /\ sends'[1].written
    THEN Append(inFlight, queryKind(sends'[1].message))
    ELSE IF last'.op = "onMessage" /\ inFlight # <<>> THEN Tail(inFlight)
    ELSE inFlight

\* The record of an operation: its name, the motor port it is called on (or
\* -1), its argument, the reply it handles, and `was`, facts of the state it
\* was called in.
Op(op, port, arg, data, was) ==
    [op |-> op, port |-> port, arg |-> arg, data |-> data, was |-> was]

\* ------------------------------------------------------------------------
\* Construction
\* ------------------------------------------------------------------------
Constructed ==
    /\ bt = "null"
    /\ sensorPorts = <<>>
    /\ motorPorts = <<>>
    /\ sensors = NoSensors
    /\ motors = NoMotors
    /\ heap = [o \in Objs |-> FreeObj]
    /\ pollingIntervalID = Null
    /\ intervals = <<>>
    /\ pollingCounter = 0
    /\ updateDevices = FALSE
    /\ rateLimiter = [count |-> 0, age |-> 0]
    /\ timeouts = <<>>
    /\ sends = <<>>
    /\ last = Op("constructor", -1, 0, <<>>, <<>>)
    /\ discovered = FALSE
    /\ ticksSinceDiscovery = -1
    /\ windowWrites = 0
    /\ polledSinceConnect = FALSE

\* The replies of the brick are free inputs.
Init == Constructed /\ inFlight = Untracked

sessionVars == <<sensorPorts, motorPorts, sensors, motors, heap, updateDevices,
                 discovered>>

\* window.setInterval(callback, delay) and window.clearInterval(id) on the
\* registered intervals; clearing an id that is not registered does nothing.
setInterval(ivs, id, delay) ==
    [i \in (DOMAIN ivs) \cup {id} |-> IF i = id THEN delay ELSE ivs[i]]
\* A clearInterval that clears nothing.
keepInterval(ivs, id) == ivs
clearInterval(ivs, id) ==
    [i \in (DOMAIN ivs) \ {id} |-> ivs[i]]

\* ------------------------------------------------------------------------
\* Connection lifecycle
\* ------------------------------------------------------------------------
\* reset(): the tables and readings are cleared; the interval whose id is
\* stored is cleared and the id forgotten.
\* A reset that leaves the motors in place.
keepMotors == motors
resetMotors == NoMotors
resetIntervals == clearInterval(intervals, pollingIntervalID)
reset ==
    /\ sensorPorts' = <<>>
    /\ motorPorts' = <<>>
    /\ sensors' = NoSensors
    /\ motors' = resetMotors
    /\ heap' = Collect(heap, resetMotors, timeouts)
    /\ IF pollingIntervalID # Null
       THEN /\ intervals' = resetIntervals
            /\ pollingIntervalID' = Null
       ELSE UNCHANGED <<intervals, pollingIntervalID>>
    /\ discovered' = FALSE

\* scan(): an existing BT is disconnected and a new, unconnected BT replaces it.
Scan ==
    /\ bt' = "open"
    /\ sends' = <<>>
    /\ last' = Op("scan", -1, 0, <<>>, <<>>)
    /\ UNCHANGED <<sensorPorts, motorPorts, sensors, motors, heap, pollingIntervalID,
                   intervals, pollingCounter, updateDevices, rateLimiter, timeouts,
                   discovered, ticksSinceDiscovery>>
    /\ windowWrites' = writesInWindow(rateLimiter', sends')
    /\ polledSinceConnect' = polledAfter
    /\ inFlight' = inFlightAfter

\* The transport reports the connection: _onConnect() registers the interval.
OnConnect ==
    /\ bt = "open"
    /\ Cardinality(DOMAIN intervals) < MaxIntervals
    /\ bt' = "connected"
    /\ LET id == NthSmallest(IntervalIds \ ((DOMAIN intervals) \cup {pollingIntervalID}), 0)
       IN  /\ intervals' = setInterval(intervals, id, pollingInterval)
           /\ pollingIntervalID' = id
    /\ sends' = <<>>
    /\ last' = Op("onConnect", -1, 0, <<>>, <<>>)
    /\ UNCHANGED <<sensorPorts, motorPorts, sensors, motors, heap, pollingCounter,
                   updateDevices, rateLimiter, timeouts, discovered,
                   ticksSinceDiscovery>>
    /\ windowWrites' = writesInWindow(rateLimiter', sends')
    /\ polledSinceConnect' = polledAfter
    /\ inFlight' = inFlightAfter

\* disconnect(): this._bt.disconnect() if there is a BT, then reset().
Disconnect ==
    /\ bt' = IF bt = "null" THEN "null" ELSE "closed"
    /\ reset
    /\ sends' = <<>>
    /\ last' = Op("disconnect", -1, 0, <<>>, <<>>)
    /\ UNCHANGED <<pollingCounter, updateDevices, rateLimiter, timeouts,
                   ticksSinceDiscovery>>
    /\ windowWrites' = writesInWindow(rateLimiter', sends')
    /\ polledSinceConnect' = polledAfter
    /\ inFlight' = inFlightAfter

\* A reset callback that also starts the counter and the flag afresh.
OnResetFromZero ==
    /\ bt = "connected"
    /\ bt' = "closed"
    /\ reset
    /\ sends' = <<>>
    /\ last' = Op("reset", -1, 0, <<>>, <<>>)
    /\ pollingCounter' = 0
    /\ updateDevices' = FALSE
    /\ UNCHANGED <<rateLimiter, timeouts, ticksSinceDiscovery>>
    /\ windowWrites' = writesInWindow(rateLimiter', sends')
    /\ polledSinceConnect' = polledAfter
    /\ inFlight' = inFlightAfter
\* The transport loses the connection and calls the reset callback.
OnReset ==
    /\ bt = "connected"
    /\ bt' = "closed"
    /\ reset
    /\ sends' = <<>>
    /\ last' = Op("reset", -1, 0, <<>>, <<>>)
    /\ UNCHANGED <<pollingCounter, updateDevices, rateLimiter, timeouts,
                   ticksSinceDiscovery>>
    /\ windowWrites' = writesInWindow(rateLimiter', sends')
    /\ polledSinceConnect' = polledAfter
    /\ inFlight' = inFlightAfter

\* ------------------------------------------------------------------------
\* Polling
\* ------------------------------------------------------------------------
\* The compound command of one device-list poll.
deviceListCmds ==
    <<OPINPUT_DEVICE_LIST, ONE_BYTE, MAX_DEVICES, GLOBAL_VARIABLE_INDEX_0,
      GLOBAL_VARIABLE_ONE_BYTE, GLOBAL_CONSTANT_INDEX_0>>
deviceListAllocation == 33

\* A read that is issued for every port.
readSensorAlways(ports, i) ==
    <<OPINPUT_READSI, LAYER, i, DO_NOT_CHANGE_TYPE, Ev3Mode(PortAt(ports, i)),
      GLOBAL_VARIABLE_ONE_BYTE, i * 4>>
\* The read of sensor port i, issued unless the port's label is 'none';
\* sensorCount equals i when the global index is computed.
readSensor(ports, i) ==
    IF PortAt(ports, i) # "none"
    THEN <<OPINPUT_READSI, LAYER, i, DO_NOT_CHANGE_TYPE, Ev3Mode(PortAt(ports, i)),
           GLOBAL_VARIABLE_ONE_BYTE, i * 4>>
    ELSE <<>>
\* A position read that counts the global index from the motor port alone.
readMotorFromZero(i) ==
    <<OPOUTPUT_GET_COUNT, LAYER, i, GLOBAL_VARIABLE_ONE_BYTE, i * 4>>
\* The position read of motor port i; sensorCount equals 4 + i.
readMotor(i) ==
    <<OPOUTPUT_GET_COUNT, LAYER, i, GLOBAL_VARIABLE_ONE_BYTE, (4 + i) * 4>>
valueCmds(ports) ==
    readSensor(ports, 0) \o readSensor(ports, 1) \o readSensor(ports, 2)
      \o readSensor(ports, 3)
      \o readMotor(0) \o readMotor(1) \o readMotor(2) \o readMotor(3)
\* allocation = sensorCount * 4 after the two loops, each of four rounds
\* An allocation for the four sensor slots alone.
allocationOfSensors == 4 * 4
\* An allocation that counts a slot only for a sensor port that is read.
allocationOfReads ==
    4 * (Cardinality({i \in 0..3 : PortAt(sensorPorts, i) # "none"}) + 4)
valueAllocation == 8 * 4

\* this._pollingCounter % 20 === 0
\* A test that is true one count late.
isDiscoveryCycleLate(counter) == counter % DiscoveryPeriod = 1
isDiscoveryCycle(counter) == counter % DiscoveryPeriod = 0
\* A poll that leaves the counter alone.
sameCounter(counter) == counter
\* this._pollingCounter++
nextCounter(counter) == counter + 1

\* _pollValues(), called by the registered interval id when its period has
\* elapsed; the interval then starts its next period, unless it was cleared.
rearm(ivs, id) == [i \in DOMAIN ivs |-> IF i = id THEN pollingInterval ELSE ivs[i]]
PollValues(id) ==
    /\ id \in DOMAIN intervals
    /\ intervals[id] = 0
    /\ last' = Op("pollValues", -1, id, <<>>, <<>>)
    /\ IF ~isConnected
       THEN /\ intervals' = rearm(clearInterval(intervals, pollingIntervalID), id)
            /\ sends' = <<>>
            /\ UNCHANGED <<pollingCounter, updateDevices, rateLimiter,
                           ticksSinceDiscovery>>
       ELSE LET disc == isDiscoveryCycle(pollingCounter)
                cmd == IF disc
                       THEN generateCommand(DIRECT_COMMAND_REPLY, deviceListCmds,
                                            deviceListAllocation)
                       ELSE generateCommand(DIRECT_COMMAND_REPLY,
                                            valueCmds(sensorPorts), valueAllocation)
                r == send(isConnected, rateLimiter, cmd, TRUE)
            IN  /\ updateDevices' = IF disc THEN TRUE ELSE updateDevices
                /\ rateLimiter' = r.rl
                /\ sends' = <<r.call>>
                /\ pollingCounter' = nextCounter(pollingCounter)
                /\ ticksSinceDiscovery' =
                      IF disc THEN 0
                      ELSE IF ticksSinceDiscovery < 0 THEN ticksSinceDiscovery
                      ELSE ticksSinceDiscovery + 1
                /\ intervals' = rearm(intervals, id)
    /\ UNCHANGED <<bt, sensorPorts, motorPorts, sensors, motors, heap,
                   pollingIntervalID, timeouts, discovered>>
    /\ windowWrites' = writesInWindow(rateLimiter', sends')
    /\ polledSinceConnect' = polledAfter
    /\ inFlight' = inFlightAfter

\* ------------------------------------------------------------------------
\* Replies
\* ------------------------------------------------------------------------
\* deviceType ? deviceType : 'none'
\* A label that is left undefined for a code that is not in the table.
deviceLabelRaw(code) == Ev3Device(code)
deviceLabel(code) == IF Ev3Device(code) # "undefined" THEN Ev3Device(code) ELSE "none"

\* A loop that stores what the table of devices gives, undefined included.
parsePortsRaw(data, first) ==
    [k \in 1..4 |-> Ev3Device(At(data, (k - 1) + first))]
\* A loop that takes a byte the reply does not have for the code of a large
\* motor.
parsePortsPadded(data, first) ==
    [k \in 1..4 |->
        deviceLabel(IF At(data, (k - 1) + first) = undefined THEN 7
                    ELSE At(data, (k - 1) + first))]
\* The labels parsed from the four bytes of a device list that start at `first`.
parsePorts(data, first) ==
    [k \in 1..4 |-> deviceLabel(At(data, (k - 1) + first))]

\* The motor table after a device list: a motor is added where the label is
\* not 'none' and the slot is empty, and removed where the label is 'none'.
\* The new motors take the free object ids in port order.
\* A test that replaces the motor a port already has.
needsMotorAnew(mp, m, k) == mp[k] # "none"
needsMotor(mp, m, k) == mp[k] # "none" /\ m[k] = Null
\* An update that adds motors and clears none.
updateMotorsAddOnly(mp, m, free) ==
    [k \in 1..4 |->
        IF needsMotor(mp, m, k)
        THEN NthSmallest(free, Cardinality({j \in 1..(k - 1) : needsMotor(mp, m, j)}))
        ELSE m[k]]
updateMotors(mp, m, free) ==
    [k \in 1..4 |->
        IF needsMotor(mp, m, k)
        THEN NthSmallest(free, Cardinality({j \in 1..(k - 1) : needsMotor(mp, m, j)}))
        ELSE IF mp[k] = "none" THEN Null
        ELSE m[k]]

\* The `position` setter of EV3Motor.  The sum of the four terms is carried as
\* the low 24 bits and the top byte (the model checker's integers have 32 bits):
\* the sum exceeds 0x7fffffff exactly when the top byte exceeds 127.  An
\* undefined element makes the sum NaN, which no comparison changes.
\* A sum that takes the second and third byte in the wrong order.
low24Swapped(array) == array[1] + (array[3] * 256) + (array[2] * 256 * 256)
low24(array) == array[1] + (array[2] * 256) + (array[3] * 256 * 256)
exceedsInt32(array) == array[4] > 127
position(array) ==
    IF \E k \in 1..4 : array[k] = undefined
    THEN NaN
    ELSE IF exceedsInt32(array)
    THEN Num(low24(array) + ((array[4] - 256) * 256 * 256 * 256))
    ELSE Num(low24(array) + (array[4] * 256 * 256 * 256))

\* The four bytes of a reply that start at `offset`.
field(data, offset) ==
    <<At(data, offset), At(data, offset + 1), At(data, offset + 2), At(data, offset + 3)>>

\* The float of the sensor field of port i.
sensorValue(data, i) ==
    LET f == field(data, 5 + (4 * i))
    IN  getFloat32(ToUint8(f[1]), ToUint8(f[2]), ToUint8(f[3]), ToUint8(f[4]))

\* One round of the sensor loop of _onMessage.
parseSensor(s, ports, data, i) ==
    LET label == Ev3Label(PortAt(ports, i))
        value == ValueOrZero(sensorValue(data, i))
    IN  IF label = "button"
        THEN [s EXCEPT !.buttons[i + 1] = value]
        ELSE IF label = "brightness" THEN [s EXCEPT !.brightness = value]
        ELSE IF label = "distance" THEN [s EXCEPT !.distance = value]
        ELSE s
\* A sensor loop that runs from port 3 down to port 0.
parseSensorsDescending(s, ports, data) ==
    parseSensor(parseSensor(parseSensor(parseSensor(s, ports, data, 3),
                                        ports, data, 2), ports, data, 1), ports, data, 0)
parseSensors(s, ports, data) ==
    parseSensor(parseSensor(parseSensor(parseSensor(s, ports, data, 0),
                                        ports, data, 1), ports, data, 2), ports, data, 3)

\* The motor loop of _onMessage: the position of every motor of the table.
parsePositions(h, m, data) ==
    [o \in Objs |->
        IF \E k \in 1..4 : m[k] = o
        THEN LET k == CHOOSE k \in 1..4 : m[k] = o
             IN  [h[o] EXCEPT !.position = position(field(data, 21 + (4 * (k - 1))))]
        ELSE h[o]]

\* data[4] !== Ev3Command.DIRECT_REPLY
\* A test of the length only.
tooShort(data) == Len(data) < 5
notDirectReply(data) == At(data, 4) # DIRECT_REPLY

\* !this._sensorPorts.includes(undefined) && !this._motorPorts.includes(undefined)
portsKnown(sp, mp) == ~includesUndefined(sp) /\ ~includesUndefined(mp)

\* _onMessage(params), with data the decoded bytes of the message.
OnMessage(data) ==
    /\ last' = Op("onMessage", -1, 0, data, motors)
    /\ sends' = <<>>
    /\ IF notDirectReply(data)
       THEN UNCHANGED sessionVars
       ELSE IF updateDevices
       THEN LET sp == parsePorts(data, 5)
                mp == parsePorts(data, 21)
                free == Objs \ Referenced(motors, timeouts)
                m == updateMotors(mp, motors, free)
                h == [o \in Objs |->
                        IF \E k \in 1..4 : needsMotor(mp, motors, k) /\ m[k] = o
                        THEN LET k == CHOOSE k \in 1..4 :
                                         needsMotor(mp, motors, k) /\ m[k] = o
                             IN  NewEV3Motor(k - 1, mp[k])
                        ELSE heap[o]]
            IN  /\ sensorPorts' = sp
                /\ motorPorts' = mp
                /\ motors' = m
                /\ heap' = Collect(h, m, timeouts)
                /\ updateDevices' = FALSE
                /\ discovered' = TRUE
                /\ UNCHANGED sensors
       ELSE IF portsKnown(sensorPorts, motorPorts)
       THEN /\ sensors' = parseSensors(sensors, sensorPorts, data)
            /\ heap' = parsePositions(heap, motors, data)
            /\ UNCHANGED <<sensorPorts, motorPorts, motors, updateDevices, discovered>>
       ELSE UNCHANGED sessionVars
    /\ UNCHANGED <<bt, pollingIntervalID, intervals, pollingCounter, rateLimiter,
                   timeouts, ticksSinceDiscovery>>
    /\ windowWrites' = writesInWindow(rateLimiter', sends')
    /\ polledSinceConnect' = polledAfter
    /\ inFlight' = inFlightAfter

\* ------------------------------------------------------------------------
\* Motors
\* ------------------------------------------------------------------------
\* _portMask(port): Math.pow(2, port)
\* A mask that counts the ports from 1.
portNumber(port) == port + 1
portMask(port) == 2 ^ port

Abs(n) == IF n < 0 THEN -n ELSE n

\* Run values that take two bytes up to 0x7fff, 0x7fff included.
runValuesInclusive(run) ==
    IF run <= 32767
    THEN <<TWO_BYTES, run % 256, (run \div 256) % 256>>
    ELSE <<FOUR_BYTES, run % 256, (run \div 256) % 256, (run \div 65536) % 256,
           (run \div 16777216) % 256>>
\* _runValues(run), for run >= 0
runValues(run) ==
    IF run < 32767
    THEN <<TWO_BYTES, run % 256, (run \div 256) % 256>>
    ELSE <<FOUR_BYTES, run % 256, (run \div 256) % 256, (run \div 65536) % 256,
           (run \div 16777216) % 256>>

\* (n < 0) ? 0x100 - speed : speed
\* A step that is always taken as positive.
dirForward(n, speed) == speed
dir(n, speed) == IF n < 0 THEN 256 - speed ELSE speed

\* run < 0, for run = n - (ramp * 2)
\* A test that never finds the run negative.
neverShort(n) == FALSE
isShort(n) == n - (RAMP * 2) < 0

\* The byte command of turnOnFor(milliseconds) for a motor of the given index,
\* power (not 0) and direction.
turnOnForCmd(index, power, direction, milliseconds) ==
    LET speed0 == power * direction
        speed == IF speed0 < 0 THEN -1 * speed0 ELSE speed0
        n0 == IF speed0 < 0 THEN -1 * milliseconds ELSE milliseconds
        n == Abs(n0)
        short == isShort(n)
        rampup == IF short THEN n \div 2 ELSE RAMP
        run == IF short THEN 0 ELSE n - (RAMP * 2)
        rampdown == IF short THEN n - rampup ELSE RAMP
    IN  <<OPOUTPUT_TIME_SPEED, LAYER, portMask(index), ONE_BYTE, dir(n0, speed) % 256,
          ONE_BYTE, rampup>> \o runValues(run) \o <<ONE_BYTE, rampdown, BRAKE>>

\* The byte command of coast().
coastCmd(index) == <<OPOUTPUT_STOP, LAYER, portMask(index), COAST>>

\* The early return of turnOnFor, coastAfter and coast: this._power === 0
\* A test that lets a power of 0 through.
powerIsNegative(o) == heap[o].power < 0
powerIsZero(o) == heap[o].power = 0

\* setTimeout(callback, delay): the callback is queued behind every pending
\* callback that is due no later.  A negative delay counts as 0.
setTimeout(ts, entry, delay) ==
    LET d == Max(0, delay)
        k == Cardinality({j \in 1..Len(ts) : ts[j].remaining <= d})
    IN  SubSeq(ts, 1, k) \o <<[entry EXCEPT !.remaining = d]>> \o SubSeq(ts, k + 1, Len(ts))

\* this._commandID = commandId
storeCommandID(o, commandId) == [heap EXCEPT ![o].commandID = commandId]

\* coastAfter(time) of motor object o (power not 0): the heap and the
\* timeouts after the call.  A pending timeout of the same motor is marked
\* superseded (history).
coastAfterHeap(o) == storeCommandID(o, uid)
coastAfterTimeouts(o, time) ==
    setTimeout([k \in 1..Len(timeouts) |->
                   IF timeouts[k].motor = o
                   THEN [timeouts[k] EXCEPT !.superseded = TRUE]
                   ELSE timeouts[k]],
               [motor |-> o, commandId |-> uid, time |-> time, remaining |-> 0,
                superseded |-> FALSE],
               time + coastDelay)

\* motor.power = value
SetPower(p, value) ==
    /\ motors[p + 1] # Null
    /\ heap' = [heap EXCEPT ![motors[p + 1]].power = value]
    /\ sends' = <<>>
    /\ last' = Op("setPower", p, value, <<>>, <<>>)
    /\ UNCHANGED <<bt, sensorPorts, motorPorts, sensors, motors, pollingIntervalID,
                   intervals, pollingCounter, updateDevices, rateLimiter, timeouts,
                   discovered, ticksSinceDiscovery>>
    /\ windowWrites' = writesInWindow(rateLimiter', sends')
    /\ polledSinceConnect' = polledAfter
    /\ inFlight' = inFlightAfter

\* motor.direction = value
SetDirection(p, value) ==
    /\ motors[p + 1] # Null
    /\ heap' = [heap EXCEPT ![motors[p + 1]].direction = IF value < 0 THEN -1 ELSE 1]
    /\ sends' = <<>>
    /\ last' = Op("setDirection", p, value, <<>>, <<>>)
    /\ UNCHANGED <<bt, sensorPorts, motorPorts, sensors, motors, pollingIntervalID,
                   intervals, pollingCounter, updateDevices, rateLimiter, timeouts,
                   discovered, ticksSinceDiscovery>>
    /\ windowWrites' = writesInWindow(rateLimiter', sends')
    /\ polledSinceConnect' = polledAfter
    /\ inFlight' = inFlightAfter

\* motor(p).turnOnFor(milliseconds)
TurnOnFor(p, milliseconds) ==
    /\ motors[p + 1] # Null
    /\ LET o == motors[p + 1]
       IN  /\ last' = Op("turnOnFor", p, milliseconds, <<>>, <<>>)
           /\ IF powerIsZero(o)
              THEN /\ sends' = <<>>
                   /\ UNCHANGED <<heap, rateLimiter, timeouts>>
              ELSE LET cmd == generateCommand(DIRECT_COMMAND_NO_REPLY,
                                  turnOnForCmd(heap[o].index, heap[o].power,
                                               heap[o].direction, milliseconds), 0)
                       r == send(isConnected, rateLimiter, cmd, TRUE)
                   IN  /\ Len(timeouts) < MaxTimeouts
                       /\ rateLimiter' = r.rl
                       /\ sends' = <<r.call>>
                       /\ heap' = coastAfterHeap(o)
                       /\ timeouts' = coastAfterTimeouts(o, milliseconds)
    /\ UNCHANGED <<bt, sensorPorts, motorPorts, sensors, motors, pollingIntervalID,
                   intervals, pollingCounter, updateDevices, discovered,
                   ticksSinceDiscovery>>
    /\ windowWrites' = writesInWindow(rateLimiter', sends')
    /\ polledSinceConnect' = polledAfter
    /\ inFlight' = inFlightAfter

\* motor(p).coastAfter(time)
CoastAfter(p, time) ==
    /\ motors[p + 1] # Null
    /\ LET o == motors[p + 1]
       IN  /\ last' = Op("coastAfter", p, time, <<>>, <<>>)
           /\ IF powerIsZero(o)
              THEN UNCHANGED <<heap, timeouts>>
              ELSE /\ Len(timeouts) < MaxTimeouts
                   /\ heap' = coastAfterHeap(o)
                   /\ timeouts' = coastAfterTimeouts(o, time)
    /\ sends' = <<>>
    /\ UNCHANGED <<bt, sensorPorts, motorPorts, sensors, motors, pollingIntervalID,
                   intervals, pollingCounter, updateDevices, rateLimiter, discovered,
                   ticksSinceDiscovery>>
    /\ windowWrites' = writesInWindow(rateLimiter', sends')
    /\ polledSinceConnect' = polledAfter
    /\ inFlight' = inFlightAfter

\* coast() of motor object o, after the send() calls `acc.calls` that left the
\* rate limiter as `acc.rl`: nothing when the power is 0, else one send() that
\* does not use the rate limiter.
\* A coast() that leaves the second argument of send() out.
coastUsesDefault == TRUE
coastUsesLimiter == FALSE
coast(acc, o) ==
    IF powerIsZero(o)
    THEN acc
    ELSE LET r == send(isConnected, acc.rl,
                       generateCommand(DIRECT_COMMAND_NO_REPLY, coastCmd(heap[o].index), 0),
                       coastUsesLimiter)
         IN  [rl |-> r.rl, calls |-> Append(acc.calls, r.call)]
NoCalls == [rl |-> rateLimiter, calls |-> <<>>]

\* motor(p).coast()
Coast(p) ==
    /\ motors[p + 1] # Null
    /\ LET c == coast(NoCalls, motors[p + 1])
       IN  /\ sends' = c.calls
           /\ rateLimiter' = c.rl
    /\ last' = Op("coast", p, 0, <<>>, <<>>)
    /\ UNCHANGED <<bt, sensorPorts, motorPorts, sensors, motors, heap,
                   pollingIntervalID, intervals, pollingCounter, updateDevices,
                   timeouts, discovered, ticksSinceDiscovery>>
    /\ windowWrites' = writesInWindow(rateLimiter', sends')
    /\ polledSinceConnect' = polledAfter
    /\ inFlight' = inFlightAfter

\* A callback that takes every command id for a stale one.
noCommandID(o, commandId) == FALSE
\* A callback that does not compare the command ids.
anyCommandID(o, commandId) == TRUE
\* this._commandID === commandId, in the callback of coastAfter
commandIDMatches(o, commandId) == heap[o].commandID = commandId

\* The callback of the timeout that is first in line and due.
TimeoutFires ==
    /\ timeouts # <<>>
    /\ Head(timeouts).remaining = 0
    /\ LET t == Head(timeouts)
           o == t.motor
       IN  /\ last' = Op("timeout", heap[o].index, t.commandId, <<>>,
                          <<t.superseded, t.time>>)
           /\ timeouts' = Tail(timeouts)
           /\ IF commandIDMatches(o, t.commandId)
              THEN LET c == coast(NoCalls, o)
                   IN  /\ sends' = c.calls
                       /\ rateLimiter' = c.rl
                       /\ heap' = Collect(storeCommandID(o, Null), motors, Tail(timeouts))
              ELSE /\ sends' = <<>>
                   /\ heap' = Collect(heap, motors, Tail(timeouts))
                   /\ UNCHANGED rateLimiter
    /\ UNCHANGED <<bt, sensorPorts, motorPorts, sensors, motors, pollingIntervalID,
                   intervals, pollingCounter, updateDevices, discovered,
                   ticksSinceDiscovery>>
    /\ windowWrites' = writesInWindow(rateLimiter', sends')
    /\ polledSinceConnect' = polledAfter
    /\ inFlight' = inFlightAfter

\* ------------------------------------------------------------------------
\* Sound and stop
\* ------------------------------------------------------------------------
\* The byte command of beep(freq, time); freq and time are not masked.
beepCmd(freq, time) ==
    <<OPSOUND, OPSOUND_CMD_TONE, ONE_BYTE, 2, TWO_BYTES, freq, freq \div 256,
      TWO_BYTES, time, time \div 256>>

\* beep(freq, time)
Beep(freq, time) ==
    /\ LET r == send(isConnected, rateLimiter,
                     generateCommand(DIRECT_COMMAND_NO_REPLY, beepCmd(freq, time), 0),
                     TRUE)
       IN  /\ sends' = <<r.call>>
           /\ rateLimiter' = r.rl
    /\ last' = Op("beep", -1, freq, <<>>, <<>>)
    /\ UNCHANGED <<bt, sensorPorts, motorPorts, sensors, motors, heap,
                   pollingIntervalID, intervals, pollingCounter, updateDevices,
                   timeouts, discovered, ticksSinceDiscovery>>
    /\ windowWrites' = writesInWindow(rateLimiter', sends')
    /\ polledSinceConnect' = polledAfter
    /\ inFlight' = inFlightAfter

\* stopAllMotors(): coast() of every motor of the table, in port order.
coastIfMotor(acc, o) == IF o # Null THEN coast(acc, o) ELSE acc
stopAllMotors(acc) ==
    coastIfMotor(coastIfMotor(coastIfMotor(coastIfMotor(acc, motors[1]), motors[2]),
                              motors[3]), motors[4])

\* stopSound(): one send() that does not use the rate limiter.
\* A stopSound() that leaves the second argument of send() out.
stopSoundUsesDefault == TRUE
stopSoundUsesLimiter == FALSE
stopSound(acc) ==
    LET r == send(isConnected, acc.rl,
                  generateCommand(DIRECT_COMMAND_NO_REPLY,
                                  <<OPSOUND, OPSOUND_CMD_STOP>>, 0),
                  stopSoundUsesLimiter)
    IN  [rl |-> r.rl, calls |-> Append(acc.calls, r.call)]

\* stopAll()
StopAll ==
    /\ LET c == stopSound(stopAllMotors(NoCalls))
       IN  /\ sends' = c.calls
           /\ rateLimiter' = c.rl
    /\ last' = Op("stopAll", -1, 0, <<>>, <<>>)
    /\ UNCHANGED <<bt, sensorPorts, motorPorts, sensors, motors, heap,
                   pollingIntervalID, intervals, pollingCounter, updateDevices,
                   timeouts, discovered, ticksSinceDiscovery>>
    /\ windowWrites' = writesInWindow(rateLimiter', sends')
    /\ polledSinceConnect' = polledAfter
    /\ inFlight' = inFlightAfter

\* ------------------------------------------------------------------------
\* Time
\* ------------------------------------------------------------------------
\* dt milliseconds pass: every pending timeout comes closer, and the window
\* of the rate limiter ages (an age beyond the window is kept as the window).
Advance(dt) ==
    /\ timeouts' = [k \in 1..Len(timeouts) |->
                       [timeouts[k] EXCEPT !.remaining = Max(0, @ - dt)]]
    /\ rateLimiter' = [rateLimiter EXCEPT !.age = Min(WindowMs, @ + dt)]
    /\ intervals' = [i \in DOMAIN intervals |-> Max(0, intervals[i] - dt)]
    /\ \/ timeouts' # timeouts
       \/ rateLimiter' # rateLimiter
       \/ intervals' # intervals
    /\ sends' = <<>>
    /\ last' = Op("advance", -1, dt, <<>>, <<>>)
    /\ UNCHANGED <<bt, sensorPorts, motorPorts, sensors, motors, heap,
                   pollingIntervalID, pollingCounter, updateDevices,
                   discovered, ticksSinceDiscovery>>
    /\ windowWrites' = writesInWindow(rateLimiter', sends')
    /\ polledSinceConnect' = polledAfter
    /\ inFlight' = inFlightAfter

\* ------------------------------------------------------------------------
\* Inputs: the replies of the brick and the arguments of the calls
\* ------------------------------------------------------------------------
\* A reply: the header (size, message counter, reply type) and the buffer.
reply(type, buffer) ==
    <<Low8(Len(buffer) + 3), ShiftAndAnd(Len(buffer) + 3), 0, 0, type>> \o buffer

\* The buffer of a device list: the type codes of the four sensor ports at
\* 0..3 and of the four motor ports at 16..19, 'none' (126) elsewhere, and
\* the changed flag at 32.
deviceListBuffer(sensorCodes, motorCodes) ==
    [k \in 1..33 |->
        IF k \in 1..4 THEN sensorCodes[k]
        ELSE IF k \in 17..20 THEN motorCodes[k - 16]
        ELSE IF k = 33 THEN 0
        ELSE 126]

\* The buffer of a value reply: four sensor fields, then four motor fields.
valueBuffer(fs, ps) ==
    fs[1] \o fs[2] \o fs[3] \o fs[4] \o ps[1] \o ps[2] \o ps[3] \o ps[4]

\* Little-endian float32 words: 0, 1, 150, -5, 42.345, NaN.
F0 == <<0, 0, 0, 0>>
F1 == <<0, 0, 128, 63>>
F150 == <<0, 0, 22, 67>>
FNeg5 == <<0, 0, 160, 192>>
F42345 == <<72, 97, 41, 66>>
FNaN == <<0, 0, 192, 127>>
\* Little-endian int32 words: 0, 1, -1, 0x7fffffff, 0x80000000.
I0 == <<0, 0, 0, 0>>
I1 == <<1, 0, 0, 0>>
INeg1 == <<255, 255, 255, 255>>
IMax == <<255, 255, 255, 127>>
IMin == <<0, 0, 0, 128>>

\* The reply type of an error reply (DIRECT_REPLY_ERROR, 0x04).
DIRECT_REPLY_ERROR == 4

\* Device lists: (sensor codes, motor codes).
DeviceConfigs ==
    { <<<<16, 29, 30, 126>>, <<126, 126, 7, 126>>>>,
      <<<<29, 29, 32, 0>>, <<8, 126, 126, 126>>>>,
      <<<<126, 126, 126, 126>>, <<126, 126, 126, 126>>>> }
DeviceLists == {reply(DIRECT_REPLY, deviceListBuffer(c[1], c[2])) : c \in DeviceConfigs}

\* Value replies.
ValueReplies ==
    { reply(DIRECT_REPLY, valueBuffer(<<F1, F150, F42345, F1>>, <<I1, INeg1, IMax, I0>>)),
      reply(DIRECT_REPLY, valueBuffer(<<F0, FNeg5, FNaN, F0>>, <<I0, I1, IMin, I0>>)) }

\* Replies that are not a success reply, and success replies that are cut short.
BadReplies ==
    { reply(DIRECT_REPLY_ERROR, deviceListBuffer(<<16, 29, 30, 126>>, <<7, 7, 7, 7>>)),
      reply(DIRECT_REPLY_ERROR, valueBuffer(<<F1, F1, F1, F1>>, <<I1, I1, I1, I1>>)),
      <<3, 0, 0, 0>>,
      <<>> }
ShortReplies == { reply(DIRECT_REPLY, <<>>), reply(DIRECT_REPLY, <<16, 29>>) }

\* Milliseconds that pass in one step of time.
TimeSteps == {1000}

\* ------------------------------------------------------------------------
\* Restrictions of the environment used by the specifications below
\* ------------------------------------------------------------------------
\* The user scans only while no connection is up, and disconnects only a
\* connection that is up.
ScanIdle == bt # "connected" /\ Scan
DisconnectConnected == bt = "connected" /\ Disconnect
\* A connection comes up only once the interval of the one before is cleared.
OnConnectFresh == DOMAIN intervals = {} /\ OnConnect
\* A connected session is polled once, for the device list.
FirstPoll(id) == (isConnected => pollingCounter = 0) /\ PollValues(id)
\* A send through the rate limiter leaves its count at no more than n.
CountBelow(n) == okayToSend(rateLimiter).rl.count <= n

\* ------------------------------------------------------------------------
\* The session: polling and replies
\* ------------------------------------------------------------------------
Replies == DeviceLists \cup ValueReplies \cup BadReplies \cup ShortReplies

Next ==
    \/ Scan
    \/ OnConnectFresh
    \/ Disconnect
    \/ OnReset
    \/ \E id \in IntervalIds : (isConnected => pollingCounter < MaxPoll) /\ PollValues(id)
    \/ \E data \in Replies : OnMessage(data)
    \/ \E dt \in TimeSteps : Advance(dt)

Spec == Init /\ [][Next]_vars

\* C2: while no device list has been parsed since construction or the last
\* reset(), _onMessage on a DIRECT_REPLY that is handled as a value reply
\* (this._updateDevices not set) leaves the sensor readings, the buttons, the
\* motors and their positions as they were.
C2_NoDecodeBeforeDiscovery ==
    [][(/\ last'.op = "onMessage"
        /\ At(last'.data, 4) = DIRECT_REPLY
        /\ ~discovered
        /\ ~updateDevices) =>
          /\ sensors' = sensors
          /\ motors' = motors
          /\ heap' = heap
      ]_vars
\* A value reply with readings and positions that are not 0 is handled on a
\* session that was reset, reconnected and polled for values.
C2_Witness ==
    /\ last.op = "onMessage"
    /\ last.data \in ValueReplies
    /\ isConnected
    /\ pollingCounter > 1
    /\ ~discovered
    /\ ~updateDevices
    /\ sensors = NoSensors

\* C7: _onMessage on a message whose byte 4 is not DIRECT_REPLY, or that has
\* no byte 4, changes neither the ports, the sensor readings, the buttons,
\* the motors, their positions nor this._updateDevices.
C7_BadTagIgnored ==
    [][(last'.op = "onMessage" /\ At(last'.data, 4) # DIRECT_REPLY) =>
          /\ sensorPorts' = sensorPorts
          /\ motorPorts' = motorPorts
          /\ sensors' = sensors
          /\ motors' = motors
          /\ heap' = heap
          /\ updateDevices' = updateDevices
      ]_vars
\* An error reply with the layout of a device list is handled while a
\* device list is awaited.
C7_Witness ==
    /\ last.op = "onMessage"
    /\ At(last.data, 4) = DIRECT_REPLY_ERROR
    /\ At(last.data, 21) = 7
    /\ isConnected
    /\ updateDevices
    /\ motors = NoMotors

\* ------------------------------------------------------------------------
\* Polling over several discovery periods
\* ------------------------------------------------------------------------
PollConfigs ==
    { <<<<126, 126, 126, 126>>, <<8, 126, 7, 126>>>>,
      <<<<126, 126, 126, 126>>, <<126, 8, 126, 7>>>>,
      <<<<126, 126, 126, 126>>, <<126, 126, 126, 126>>>> }
PollReplies == {reply(DIRECT_REPLY, deviceListBuffer(c[1], c[2])) : c \in PollConfigs}

NextPoll ==
    \/ ScanIdle
    \/ OnConnect
    \/ DisconnectConnected
    \/ \E id \in IntervalIds :
          (isConnected => pollingCounter < MaxPollDeep) /\ PollValues(id)
    \/ \E data \in PollReplies : OnMessage(data)
    \/ \E dt \in TimeSteps : Advance(dt)

SpecPoll == Init /\ [][NextPoll]_vars

\* C3: when a device list is parsed, a motor port whose code is that of a
\* large or medium motor has a motor object with the index of the port
\* afterwards, and a motor port whose code maps to 'none' has none, whatever
\* it had before.
C3_MotorFollowsDeviceList ==
    [][(/\ last'.op = "onMessage"
        /\ At(last'.data, 4) = DIRECT_REPLY
        /\ updateDevices) =>
          \A p \in Ports :
             LET code == At(last'.data, 21 + p)
             IN  /\ code \in {7, 8} =>
                       /\ motors'[p + 1] # Null
                       /\ heap'[motors'[p + 1]].index = p
                       /\ motors[p + 1] = Null =>
                              heap'[motors'[p + 1]].type =
                                 (IF code = 7 THEN "largeMotor" ELSE "mediumMotor")
                 /\ code \notin {7, 8, 16, 29, 30, 32} => motors'[p + 1] = Null
      ]_vars
\* Port 2 had a large motor from an earlier device list, and the device list
\* of a later discovery cycle reports no device there.
C3_Witness ==
    /\ last.op = "onMessage"
    /\ At(last.data, 4) = DIRECT_REPLY
    /\ At(last.data, 23) = 126
    /\ last.was[3] # Null
    /\ motors[3] = Null
    /\ motors[2] # Null
    /\ isConnected
    /\ pollingCounter > DiscoveryPeriod

\* C8: _pollValues on a connected session adds exactly 1 to the polling
\* counter, and the counter never falls.  When the counter before the call
\* is a multiple of 20 the message asks for the device list with an
\* allocation of 33 and this._updateDevices is set; otherwise the message
\* asks for values and this._updateDevices is left alone.  A device-list poll
\* is the first connected poll or follows exactly 19 value polls.
C8_PollCycle ==
    [][/\ pollingCounter' >= pollingCounter
       /\ (last'.op = "pollValues" /\ isConnected) =>
             /\ pollingCounter' = pollingCounter + 1
             /\ Len(sends') = 1
             /\ LET msg == sends'[1].message
                IN  IF pollingCounter % 20 = 0
                    THEN /\ msg[8] = OPINPUT_DEVICE_LIST
                         /\ msg[6] = 33
                         /\ msg[7] = 0
                         /\ updateDevices'
                         /\ ticksSinceDiscovery \in {-1, 19}
                         /\ ticksSinceDiscovery' = 0
                    ELSE /\ msg[8] \in {OPINPUT_READSI, OPOUTPUT_GET_COUNT}
                         /\ updateDevices' = updateDevices
                         /\ ticksSinceDiscovery \in 0..18
                         /\ ticksSinceDiscovery' = ticksSinceDiscovery + 1
      ]_vars
\* The third device-list poll, at a count of 40.
C8_Witness ==
    /\ last.op = "pollValues"
    /\ isConnected
    /\ pollingCounter = 41
    /\ updateDevices
    /\ ticksSinceDiscovery = 0
    /\ sends[1].message[8] = OPINPUT_DEVICE_LIST

\* ------------------------------------------------------------------------
\* Motors and their coast timeouts
\* ------------------------------------------------------------------------
MotorConfigs ==
    { <<<<126, 126, 126, 126>>, <<126, 126, 7, 126>>>> }
MotorReplies == {reply(DIRECT_REPLY, deviceListBuffer(c[1], c[2])) : c \in MotorConfigs}
Powers == {0, 50}
Durations == {100, 50}
Tones == {200}
\* An output port with the motor of MotorConfigs, and one without a motor.
MotorPorts == {2, 0}

NextMotor ==
    \/ ScanIdle
    \/ OnConnect
    \/ DisconnectConnected
    \/ \E id \in IntervalIds : FirstPoll(id)
    \/ \E data \in MotorReplies : OnMessage(data)
    \/ \E p \in MotorPorts, v \in Powers : SetPower(p, v)
    \/ \E p \in MotorPorts, ms \in Durations : CountBelow(MaxSends) /\ TurnOnFor(p, ms)
    \/ \E p \in MotorPorts, ms \in Durations : CoastAfter(p, ms)
    \/ \E p \in MotorPorts : Coast(p)
    \/ TimeoutFires
    \/ \E dt \in TimeSteps : Advance(dt)

SpecMotor == Init /\ [][NextMotor]_vars

\* The coast messages written by the send() calls `calls`.
coastsWritten(calls) ==
    {k \in 1..Len(calls) : calls[k].written /\ calls[k].message[8] = OPOUTPUT_STOP}

\* C1: the callback of a coast timeout writes a coast message only when the
\* command id it was armed with is still the command id of its motor.  A
\* timeout that a later turnOnFor or coastAfter of the same motor superseded
\* sends nothing, and the timeout of the latest call writes exactly one coast
\* message for its port when the session is connected and the power is not 0.
C1_CoastOnlyForCurrentToken ==
    [][last'.op = "timeout" =>
          LET t == Head(timeouts)
              o == t.motor
              coasts == coastsWritten(sends')
          IN  /\ coasts # {} => heap[o].commandID = t.commandId /\ ~t.superseded
              /\ t.superseded => sends' = <<>>
              /\ (~t.superseded /\ isConnected /\ heap[o].power # 0) =>
                     /\ Len(sends') = 1
                     /\ coasts = {1}
                     /\ sends'[1].message[10] = portMask(heap[o].index)
      ]_vars
\* turnOnFor(100) then turnOnFor(50): the timeout of the first call fires
\* last, after the timeout of the second call has coasted the motor, and
\* sends nothing.
C1_Witness ==
    /\ last.op = "timeout"
    /\ last.was = <<TRUE, 100>>
    /\ sends = <<>>
    /\ isConnected
    /\ motors[last.port + 1] # Null
    /\ heap[motors[last.port + 1]].power # 0
    /\ heap[motors[last.port + 1]].commandID = Null

\* C9: with a power of 0, turnOnFor, coastAfter and coast send nothing, arm
\* no timeout and leave the motor, the timeouts and the rate limiter as
\* they were.
C9_ZeroPowerNoOp ==
    [][(/\ last'.op \in {"turnOnFor", "coastAfter", "coast"}
        /\ heap[motors[last'.port + 1]].power = 0) =>
          /\ sends' = <<>>
          /\ timeouts' = timeouts
          /\ heap' = heap
          /\ rateLimiter' = rateLimiter
      ]_vars
C9_Witness ==
    /\ last.op = "turnOnFor"
    /\ isConnected
    /\ motors[last.port + 1] # Null
    /\ heap[motors[last.port + 1]].power = 0
    /\ heap[motors[last.port + 1]].commandID = Null
    /\ timeouts = <<>>
    /\ sends = <<>>

\* ------------------------------------------------------------------------
\* The send path and the rate limiter
\* ------------------------------------------------------------------------
Directions == {1, -1}

NextSend ==
    \/ bt = "null" /\ Scan
    \/ OnConnect
    \/ \E id \in IntervalIds : (isConnected => pollingCounter < MaxPoll) /\ PollValues(id)
    \/ \E data \in MotorReplies : OnMessage(data)
    \/ \E f \in Tones : Beep(f, 100)
    \/ \E p \in MotorPorts : Len(timeouts) < MaxTimeoutsSend /\ TurnOnFor(p, 100)
    \/ \E p \in MotorPorts, d \in Directions : SetDirection(p, d)
    \/ \E p \in MotorPorts : Coast(p)
    \/ StopAll
    \/ TimeoutFires
    \/ \E dt \in TimeSteps : Advance(dt)

SpecSend == Init /\ [][NextSend]_vars

\* C4: on a connected session a send() through the rate limiter is written
\* exactly when fewer than 40 messages were written through it in the
\* current window or the window has elapsed; so no more than 40 messages are
\* written through the rate limiter in one window.
C4_AtMostMaxPerWindow ==
    [][/\ windowWrites' <= 40
       /\ \A k \in 1..Len(sends') :
             (sends'[k].useLimiter /\ isConnected) =>
                (sends'[k].written <=> (rateLimiter.age >= WindowMs \/ windowWrites < 40))
      ]_vars
\* The 41st beep of a window is not written.
C4_Witness ==
    /\ last.op = "beep"
    /\ isConnected
    /\ windowWrites = 40
    /\ rateLimiter.age < WindowMs
    /\ Len(sends) = 1
    /\ sends[1].useLimiter
    /\ ~sends[1].written

\* C5: the coast message of a motor and the message of stopSound are sent
\* without the rate limiter and are written whenever the session is
\* connected; every other message (beep, turnOnFor, _pollValues) is sent with
\* the rate limiter and is written only if the rate limiter allows it.  An
\* operation that sends without the rate limiter leaves its count alone.
C5_CoastAndStopSoundBypass ==
    [][/\ \A k \in 1..Len(sends') :
             LET c == sends'[k]
                 bypass == \/ c.message[8] = OPOUTPUT_STOP
                           \/ c.message[8] = OPSOUND /\ c.message[9] = OPSOUND_CMD_STOP
             IN  IF bypass
                 THEN ~c.useLimiter /\ (c.written <=> isConnected)
                 ELSE /\ c.useLimiter
                      /\ c.written =>
                            /\ isConnected
                            /\ rateLimiter.age >= WindowMs \/ rateLimiter.count < BTSendRateMax
       /\ (\A k \in 1..Len(sends') : ~sends'[k].useLimiter) =>
             rateLimiter'.count = rateLimiter.count
      ]_vars
\* stopAll writes the coast message of a motor and the message of stopSound
\* in a window in which the rate limiter allows no further message.
C5_Witness ==
    /\ last.op = "stopAll"
    /\ isConnected
    /\ rateLimiter.count = BTSendRateMax
    /\ rateLimiter.age < WindowMs
    /\ Len(sends) = 2
    /\ sends[1].message[8] = OPOUTPUT_STOP
    /\ sends[1].written
    /\ sends[2].message[8] = OPSOUND
    /\ sends[2].written

\* ------------------------------------------------------------------------
\* Operations on a session that is not connected
\* ------------------------------------------------------------------------
NextOffline ==
    \/ Scan
    \/ OnConnectFresh
    \/ Disconnect
    \/ \E id \in IntervalIds : (isConnected => pollingCounter < MaxPoll) /\ PollValues(id)
    \/ \E data \in MotorReplies : OnMessage(data)
    \/ \E f \in Tones : CountBelow(MaxSends) /\ Beep(f, 100)
    \/ \E p \in MotorPorts : CountBelow(MaxSends) /\ Len(timeouts) < MaxTimeoutsSend
                           /\ TurnOnFor(p, 100)
    \/ \E p \in MotorPorts : Coast(p)
    \/ StopAll
    \/ TimeoutFires
    \/ \E dt \in TimeSteps : Advance(dt)

SpecOffline == Init /\ [][NextOffline]_vars

\* C6: an operation on a session that is not connected writes no message
\* and leaves the count of the rate limiter as it was.
C6_NothingSentOffline ==
    [][~isConnected =>
          /\ \A k \in 1..Len(sends') : ~sends'[k].written
          /\ rateLimiter'.count = rateLimiter.count
      ]_vars
\* turnOnFor on a motor that outlived a scan(): the session is not connected
\* and the message is not written.
C6_Witness ==
    /\ last.op = "turnOnFor"
    /\ bt = "open"
    /\ Len(sends) = 1
    /\ sends[1].useLimiter
    /\ ~sends[1].written
    /\ rateLimiter.count > 0

\* ------------------------------------------------------------------------
\* The connection lifecycle and the polling interval
\* ------------------------------------------------------------------------
NextLifecycle ==
    \/ Scan
    \/ OnConnect
    \/ Disconnect
    \/ OnReset
    \/ \E id \in IntervalIds : (isConnected => pollingCounter < MaxPoll) /\ PollValues(id)
    \/ \E data \in DeviceLists \cup ValueReplies : OnMessage(data)
    \/ \E dt \in TimeSteps : Advance(dt)

SpecLifecycle == Init /\ [][NextLifecycle]_vars

\* C10: after reset() and after disconnect() the ports are unset, the sensor
\* readings and the buttons are 0, no port has a motor, and no interval that
\* calls _pollValues is registered.
C10_ResetClearsAll ==
    last.op \in {"disconnect", "reset"} =>
        /\ sensorPorts = <<>>
        /\ motorPorts = <<>>
        /\ sensors = NoSensors
        /\ motors = NoMotors
        /\ pollingIntervalID = Null
        /\ DOMAIN intervals = {}
\* The part of C10 about the tables and readings alone.
C10_TablesCleared ==
    last.op \in {"disconnect", "reset"} =>
        /\ sensorPorts = <<>>
        /\ motorPorts = <<>>
        /\ sensors = NoSensors
        /\ motors = NoMotors
        /\ pollingIntervalID = Null

\* ------------------------------------------------------------------------
\* generateCommand called on its own
\* ------------------------------------------------------------------------
\* generateCommand(type, byteCommands, allocation), a method that changes no
\* field: the command it returns is recorded.
GenerateCommand(type, byteCommands, allocation) ==
    /\ last' = Op("generateCommand", -1, Len(byteCommands),
                  generateCommand(type, byteCommands, allocation),
                  <<type, allocation>>)
    /\ sends' = <<>>
    /\ UNCHANGED <<bt, sensorPorts, motorPorts, sensors, motors, heap,
                   pollingIntervalID, intervals, pollingCounter, updateDevices,
                   rateLimiter, timeouts, discovered, ticksSinceDiscovery>>
    /\ windowWrites' = writesInWindow(rateLimiter', sends')
    /\ polledSinceConnect' = polledAfter
    /\ inFlight' = inFlightAfter

\* byteCommands of up to 10 bytes and of 245 to MaxPayload bytes, command
\* types and allocations.
payloadOf(n) == [k \in 1..n |-> k % 256]
Payloads == {payloadOf(n) : n \in (0..10) \cup (245..MaxPayload)}
CommandTypes == {DIRECT_COMMAND_REPLY, DIRECT_COMMAND_NO_REPLY}
Allocations == {0, 32, 33, 255, 256, 300, 1023}

NextCommand ==
    \E type \in CommandTypes, byteCommands \in Payloads, allocation \in Allocations :
        GenerateCommand(type, byteCommands, allocation)

SpecCommand == Init /\ [][NextCommand]_vars

\* C11: bytes 0 and 1 of the command that generateCommand returns hold, low
\* byte first, the length of the byteCommands plus 5, which is the length
\* of the command minus 2.
C11_LengthField ==
    last.op = "generateCommand" =>
        /\ last.data[1] + (256 * last.data[2]) = last.arg + 5
        /\ last.data[1] + (256 * last.data[2]) = Len(last.data) - 2
\* The part of C11 for commands whose length fits one byte.
C11_ShortLengthField ==
    (last.op = "generateCommand" /\ last.arg + 5 < 256) =>
        /\ last.data[1] + (256 * last.data[2]) = last.arg + 5
        /\ last.data[1] + (256 * last.data[2]) = Len(last.data) - 2

\* ------------------------------------------------------------------------
\* Motor positions of value replies
\* ------------------------------------------------------------------------
\* A large motor at port 0 and nothing else.
PositionConfig == <<<<126, 126, 126, 126>>, <<7, 126, 126, 126>>>>
\* The bytes that position fields are made of, and the fields.
PositionBytes == {0, 1, 127, 128, 255}
PositionWords == {<<b0, b1, b2, b3>> : b0 \in {0, 255}, b1 \in {0, 1, 255},
                                       b2 \in {0, 128, 255}, b3 \in PositionBytes}
PositionReplies ==
    {reply(DIRECT_REPLY, deviceListBuffer(PositionConfig[1], PositionConfig[2]))}
    \cup {reply(DIRECT_REPLY, valueBuffer(<<F0, F0, F0, F0>>, <<w, I1, INeg1, I0>>)) :
              w \in PositionWords}

NextPosition ==
    \/ bt = "null" /\ Scan
    \/ OnConnect
    \/ \E id \in IntervalIds : FirstPoll(id)
    \/ \E data \in PositionReplies : OnMessage(data)
    \/ \E dt \in TimeSteps : Advance(dt)

SpecPosition == Init /\ [][NextPosition]_vars

isNaN(f) == f.exp = 255 /\ f.frac # 0
greaterThan100(f) ==
    ~isNaN(f) /\ f.sign = 0 /\ (f.exp > 133 \/ (f.exp = 133 /\ f.frac > 4718592))
lessThan0(f) == ~isNaN(f) /\ f.sign = 1 /\ ~(f.exp = 0 /\ f.frac = 0)

\* Math.floor(100 * value) of a float from 0 to 100, which is
\* mantissa * 2^(exp - 150).
trunc100(f) ==
    LET mantissa == IF f.exp = 0 THEN f.frac ELSE 8388608 + f.frac
        shift == IF f.exp = 0 THEN 149 ELSE 150 - f.exp
    IN  IF shift > 30 THEN 0 ELSE (100 * mantissa) \div (2 ^ shift)
\* Math.round(100 * value) of a float from 0 to 100: the nearest integer,
\* the upper one of two that are equally near.
round100(f) ==
    LET mantissa == IF f.exp = 0 THEN f.frac ELSE 8388608 + f.frac
        shift == IF f.exp = 0 THEN 149 ELSE 150 - f.exp
    IN  IF shift > 31 THEN 0
        ELSE (((100 * mantissa) \div (2 ^ (shift - 1))) + 1) \div 2

\* get distance (): the value returned, in hundredths.
distance ==
    LET stored == sensors.distance
    IN  IF isNaN(stored) THEN NaN
        ELSE IF greaterThan100(stored) THEN Num(100 * 100)
        ELSE IF lessThan0(stored) THEN Num(0)
        ELSE Num(round100(stored))
\* get brightness ()
brightness == sensors.brightness

\* A touch sensor, a color sensor and an ultrasonic sensor at ports 0..2.
DistanceConfig == <<<<16, 29, 30, 126>>, <<126, 126, 126, 126>>>>
\* Little-endian float32 words: 100, 99.995, 99.99, 100.004, 42.344, 0.005,
\* 0.0075, 0.5, the infinities, -0 and the least number above 0.
F100 == <<0, 0, 200, 66>>
F99995 == <<113, 253, 199, 66>>
F9999 == <<225, 250, 199, 66>>
F100004 == <<12, 2, 200, 66>>
F42344 == <<66, 96, 41, 66>>
F0005 == <<10, 215, 163, 59>>
F00075 == <<143, 194, 245, 59>>
FHalf == <<0, 0, 0, 63>>
FInf == <<0, 0, 128, 127>>
FNegInf == <<0, 0, 128, 255>>
FNeg0 == <<0, 0, 0, 128>>
FLeast == <<1, 0, 0, 0>>
DistanceWords ==
    {F0, F1, F150, FNeg5, F42345, FNaN, F100, F99995, F9999, F100004, F42344,
     F0005, F00075, FHalf, FInf, FNegInf, FNeg0, FLeast}
DistanceReplies ==
    {reply(DIRECT_REPLY, deviceListBuffer(DistanceConfig[1], DistanceConfig[2]))}
    \cup {reply(DIRECT_REPLY, valueBuffer(<<F1, b, w, F0>>, <<I0, I0, I0, I0>>)) :
              b \in {F150, FNeg5}, w \in DistanceWords}

NextDistance ==
    \/ bt = "null" /\ Scan
    \/ OnConnect
    \/ \E id \in IntervalIds : FirstPoll(id)
    \/ \E data \in DistanceReplies : OnMessage(data)
    \/ \E dt \in TimeSteps : Advance(dt)

SpecDistance == Init /\ [][NextDistance]_vars

\* C13: the distance accessor always returns a number from 0 to 100 (0 to
\* 10000 hundredths).  After a value reply that carries the reading w for
\* the ultrasonic sensor it returns 100 for 150, 0 for -5 and 42.35 for
\* 42.345, and for a reading from 0 to 100 the multiple of 0.01 nearest to
\* it.  The brightness accessor returns the reading as it was stored: 150
\* and -5 stay 150 and -5.
C13_DistanceClamped ==
    /\ [](~distance.nan /\ distance.v \in 0..10000)
    /\ [][(/\ last'.op = "onMessage"
           /\ At(last'.data, 4) = DIRECT_REPLY
           /\ ~updateDevices
           /\ Len(sensorPorts) = 4
           /\ sensorPorts[2] = "color" /\ sensorPorts[3] = "ultrasonic"
           /\ Len(last'.data) = 37) =>
             LET w == SubSeq(last'.data, 14, 17)
                 b == SubSeq(last'.data, 10, 13)
                 f == getFloat32(w[1], w[2], w[3], w[4])
             IN  /\ w = F150 => distance' = Num(10000)
                 /\ w = FNeg5 => distance' = Num(0)
                 /\ w = F42345 => distance' = Num(4235)
                 /\ w = F42344 => distance' = Num(4234)
                 /\ w = F99995 => distance' = Num(10000)
                 /\ w = F9999 => distance' = Num(9999)
                 /\ w = F00075 => distance' = Num(1)
                 /\ w \in {F0, FNaN, FNeg0, FNegInf, FLeast, F0005} => distance' = Num(0)
                 /\ w \in {F100, F100004, FInf} => distance' = Num(10000)
                 /\ (f.sign = 0 /\ f.exp \in 120..133 /\ ~greaterThan100(f)) =>
                        trunc100(f) \in {distance'.v - 1, distance'.v}
                 /\ b = F150 => brightness' = [sign |-> 0, exp |-> 134, frac |-> 1441792]
                 /\ b = FNeg5 => brightness' = [sign |-> 1, exp |-> 129, frac |-> 2097152]
         ]_vars
\* The reading 42.345 has been stored and the accessor returns 42.35.
C13_Witness ==
    /\ last.op = "onMessage"
    /\ Len(last.data) = 37
    /\ SubSeq(last.data, 14, 17) = F42345
    /\ sensors.distance = getFloat32(72, 97, 41, 66)
    /\ distance = Num(4235)

\* ------------------------------------------------------------------------
\* Motors at every port
\* ------------------------------------------------------------------------
\* A motor at each of the four ports.
AllMotorsConfig == <<<<126, 126, 126, 126>>, <<7, 8, 7, 8>>>>
AllMotorsReplies ==
    {reply(DIRECT_REPLY, deviceListBuffer(AllMotorsConfig[1], AllMotorsConfig[2]))}

NextPorts ==
    \/ bt = "null" /\ Scan
    \/ OnConnect
    \/ \E id \in IntervalIds : FirstPoll(id)
    \/ \E data \in AllMotorsReplies : OnMessage(data)
    \/ \E p \in Ports : CountBelow(MaxSends) /\ TurnOnFor(p, 100)
    \/ \E p \in Ports : Coast(p)
    \/ TimeoutFires
    \/ StopAll
    \/ \E dt \in TimeSteps : Advance(dt)

SpecPorts == Init /\ [][NextPorts]_vars

\* The output bit field of the ports 0, 1, 2, 3.
BitField == <<1, 2, 4, 8>>
\* The bit fields of the commands of a sequence of send() calls.
bitFields(calls) == [k \in 1..Len(calls) |-> At(calls[k].message, 9)]

\* C14: the command of turnOnFor() and of coast() of the motor of port i,
\* whether coast() is called directly, by the timeout of coastAfter() or by
\* stopAll(), carries the bit field 1, 2, 4, 8 for i = 0, 1, 2, 3.
C14_PortBitField ==
    [][/\ (last'.op = "turnOnFor" /\ sends' # <<>>) =>
            /\ sends'[1].message[8] = OPOUTPUT_TIME_SPEED
            /\ bitFields(sends') = <<BitField[last'.port + 1]>>
       /\ (last'.op = "coast" /\ sends' # <<>>) =>
            /\ sends'[1].message[8] = OPOUTPUT_STOP
            /\ bitFields(sends') = <<BitField[last'.port + 1]>>
       /\ (last'.op = "timeout" /\ sends' # <<>>) =>
            /\ sends'[1].message[8] = OPOUTPUT_STOP
            /\ \A k \in 1..4 : motors[k] = Head(timeouts).motor =>
                                  bitFields(sends') = <<BitField[k]>>
       /\ (last'.op = "stopAll" /\ \A k \in 1..4 : motors[k] # Null) =>
            /\ \A k \in 1..4 : sends'[k].message[8] = OPOUTPUT_STOP
            /\ SubSeq(bitFields(sends'), 1, 4) = BitField
      ]_vars
\* The timeout of turnOnFor() of the motor of port 3 has written a coast
\* command with the bit field 8.
C14_Witness ==
    /\ last.op = "timeout"
    /\ last.port = 3
    /\ Len(sends) = 1
    /\ sends[1].written
    /\ sends[1].message[8] = OPOUTPUT_STOP
    /\ sends[1].message[10] = 8

\* ------------------------------------------------------------------------
\* stopAll()
\* ------------------------------------------------------------------------
\* Motors at the ports 0, 2, 3 or at port 1 only.
StopConfigs ==
    { <<<<126, 126, 126, 126>>, <<7, 126, 8, 7>>>>,
      <<<<126, 126, 126, 126>>, <<126, 8, 126, 126>>>> }
StopReplies == {reply(DIRECT_REPLY, deviceListBuffer(c[1], c[2])) : c \in StopConfigs}

NextStop ==
    \/ bt = "null" /\ Scan
    \/ OnConnect
    \/ \E id \in IntervalIds : FirstPoll(id)
    \/ \E data \in StopReplies : OnMessage(data)
    \/ \E p \in Ports, value \in Powers : SetPower(p, value)
    \/ \E f \in Tones : Beep(f, 100)
    \/ StopAll
    \/ \E dt \in TimeSteps : Advance(dt)

SpecStop == Init /\ [][NextStop]_vars

\* The ports whose motor stopAll() has to coast, in port order.
portsToCoast ==
    SelectSeq(<<0, 1, 2, 3>>,
              LAMBDA p : motors[p + 1] # Null /\ heap[motors[p + 1]].power # 0)
\* The coast command of a port and the command of stopSound, byte by byte.
coastFrame(p) ==
    <<9, 0, 0, 0, DIRECT_COMMAND_NO_REPLY, 0, 0, OPOUTPUT_STOP, LAYER, BitField[p + 1], COAST>>
stopSoundFrame == <<7, 0, 0, 0, DIRECT_COMMAND_NO_REPLY, 0, 0, OPSOUND, OPSOUND_CMD_STOP>>

\* C15: stopAll() on a connected session writes the coast command of every
\* port that has a motor whose power is not 0, in port order, and then the
\* command of stopSound; it writes nothing else, and it writes them whatever
\* the state of the rate limiter, which it leaves as it is.
C15_StopAllFrames ==
    [][(last'.op = "stopAll" /\ isConnected) =>
          /\ Len(sends') = Len(portsToCoast) + 1
          /\ \A k \in 1..Len(portsToCoast) :
                sends'[k].message = coastFrame(portsToCoast[k])
          /\ sends'[Len(sends')].message = stopSoundFrame
          /\ \A k \in 1..Len(sends') : sends'[k].written
          /\ rateLimiter' = rateLimiter
      ]_vars
\* stopAll() has written the coast commands of the ports 0 and 3 and the
\* command of stopSound, with motors at 0, 2 and 3, the power of the motor
\* of port 2 at 0, and a rate limiter that allows no further message.
C15_Witness ==
    /\ last.op = "stopAll"
    /\ isConnected
    /\ rateLimiter.count = BTSendRateMax
    /\ rateLimiter.age < WindowMs
    /\ motors[2] = Null
    /\ motors[3] # Null
    /\ heap[motors[3]].power = 0
    /\ Len(sends) = 3
    /\ sends[1].message = coastFrame(0)
    /\ sends[2].message = coastFrame(3)
    /\ sends[3].message = stopSoundFrame
    /\ \A k \in 1..3 : sends[k].written

\* ------------------------------------------------------------------------
\* The allocation of the value poll
\* ------------------------------------------------------------------------
\* One sensor, two sensors, four sensors, none.
AllocationConfigs ==
    { <<<<16, 126, 126, 126>>, <<126, 126, 126, 126>>>>,
      <<<<126, 29, 30, 126>>, <<7, 126, 126, 126>>>>,
      <<<<16, 29, 30, 32>>, <<126, 126, 126, 126>>>>,
      <<<<126, 126, 126, 126>>, <<126, 126, 126, 126>>>> }
AllocationReplies ==
    {reply(DIRECT_REPLY, deviceListBuffer(c[1], c[2])) : c \in AllocationConfigs}

NextAllocation ==
    \/ ScanIdle
    \/ OnConnect
    \/ DisconnectConnected
    \/ \E id \in IntervalIds : (isConnected => pollingCounter < MaxPoll) /\ PollValues(id)
    \/ \E data \in AllocationReplies : OnMessage(data)
    \/ \E dt \in TimeSteps : Advance(dt)

SpecAllocation == Init /\ [][NextAllocation]_vars

\* The sensor ports that a value poll reads: those whose label is not 'none'.
portsRead == {i \in 0..3 : PortAt(sensorPorts, i) # "none"}
\* The allocation written in a command.
allocationOf(msg) == msg[6] + (256 * msg[7])
\* The commands of a payload: the indices at which an opcode stands.
readsOf(msg) == {k \in 8..Len(msg) : msg[k] = OPINPUT_READSI /\ msg[k + 1] = LAYER
                                        /\ msg[k + 3] = DO_NOT_CHANGE_TYPE}

\* C16 as stated: the allocation of a value poll is 4 times the number of
\* sensor ports read plus 4.
C16_AllocationCountsReads ==
    [][(/\ last'.op = "pollValues"
        /\ isConnected
        /\ pollingCounter % 20 # 0) =>
          allocationOf(sends'[1].message) = 4 * (Cardinality(portsRead) + 4)
      ]_vars
\* C16, amended: the allocation of a value poll is 32, the size of four
\* sensor slots and four position slots, however many sensor ports are
\* read; the payload has one read per sensor port whose label is not
\* 'none' and the four position reads, 7 and 5 bytes each.
C16_AllocationIsFixed ==
    [][(/\ last'.op = "pollValues"
        /\ isConnected
        /\ pollingCounter % 20 # 0) =>
          LET msg == sends'[1].message
          IN  /\ allocationOf(msg) = 32
              /\ Len(msg) = 7 + (7 * Cardinality(portsRead)) + (5 * 4)
              /\ Cardinality(readsOf(msg)) = Cardinality(portsRead)
      ]_vars
\* A value poll that reads one sensor port and allocates 32 bytes.
C16_Witness ==
    /\ last.op = "pollValues"
    /\ Len(sends) = 1
    /\ sends[1].message[8] = OPINPUT_READSI
    /\ Cardinality(portsRead) = 1
    /\ allocationOf(sends[1].message) = 32

\* C17: the first _pollValues of a connection, the first one and every one
\* after a disconnect or reset, asks for the device list and sets
\* this._updateDevices.
C17_FirstPollIsDeviceList ==
    [][(/\ last'.op = "pollValues"
        /\ isConnected
        /\ ~polledSinceConnect) =>
          /\ sends'[1].message[8] = OPINPUT_DEVICE_LIST
          /\ updateDevices'
      ]_vars

\* ------------------------------------------------------------------------
\* The readings of a value reply
\* ------------------------------------------------------------------------
\* Device lists with sensors of every kind, two ports of one kind included,
\* and value replies with a different reading for each port.
RoutingReplies ==
    {reply(DIRECT_REPLY, deviceListBuffer(c, <<126, 126, 126, 126>>)) :
        c \in {<<16, 29, 30, 126>>, <<29, 29, 32, 16>>, <<30, 16, 30, 125>>,
               <<16, 0, 16, 32>>}}
    \cup {reply(DIRECT_REPLY, valueBuffer(<<F1, F150, F42345, F100>>, <<I0, I0, I0, I0>>)),
          reply(DIRECT_REPLY, valueBuffer(<<FNeg5, F0, F1, FNaN>>, <<I0, I0, I0, I0>>)),
          reply(DIRECT_REPLY, valueBuffer(<<F100, FNeg5, F150, F1>>, <<I0, I0, I0, I0>>))}

NextRouting ==
    \/ bt = "null" /\ Scan
    \/ OnConnect
    \/ \E id \in IntervalIds : FirstPoll(id)
    \/ \E data \in RoutingReplies : OnMessage(data)
    \/ \E dt \in TimeSteps : Advance(dt)

SpecRouting == Init /\ [][NextRouting]_vars

\* The number that is stored for the four bytes of a reading: the float, and
\* 0 for 0 and for NaN.
reading(w) ==
    CASE w = F1 -> [sign |-> 0, exp |-> 127, frac |-> 0]
      [] w = F150 -> [sign |-> 0, exp |-> 134, frac |-> 1441792]
      [] w = F42345 -> [sign |-> 0, exp |-> 132, frac |-> 2711880]
      [] w = F100 -> [sign |-> 0, exp |-> 133, frac |-> 4718592]
      [] w = FNeg5 -> [sign |-> 1, exp |-> 129, frac |-> 2097152]
      [] w \in {F0, FNaN} -> [sign |-> 0, exp |-> 0, frac |-> 0]
\* The ports of a kind, and the greatest of a set of ports.
portsOf(kind) == {i \in 0..3 : sensorPorts[i + 1] = kind}
greatest(S) == CHOOSE i \in S : \A j \in S : j <= i

\* C18: a value reply that is decoded once the device list is known sets
\* button i to the reading of port i for every touch port i and leaves the
\* other buttons alone, sets the brightness to the reading of the highest
\* color port and the distance to the reading of the highest ultrasonic
\* port, and leaves a reading alone that no port has the kind of; the
\* readings of gyro ports and empty ports are not stored.
C18_ReadingsByPortKind ==
    [][(/\ last'.op = "onMessage"
        /\ At(last'.data, 4) = DIRECT_REPLY
        /\ ~updateDevices
        /\ Len(sensorPorts) = 4
        /\ Len(last'.data) = 37) =>
          LET w(i) == SubSeq(last'.data, 6 + (4 * i), 9 + (4 * i))
          IN  /\ \A i \in 0..3 :
                    sensors'.buttons[i + 1] =
                        IF i \in portsOf("touch") THEN reading(w(i))
                        ELSE sensors.buttons[i + 1]
              /\ sensors'.brightness =
                    IF portsOf("color") # {} THEN reading(w(greatest(portsOf("color"))))
                    ELSE sensors.brightness
              /\ sensors'.distance =
                    IF portsOf("ultrasonic") # {}
                    THEN reading(w(greatest(portsOf("ultrasonic"))))
                    ELSE sensors.distance
      ]_vars
\* With color sensors at the ports 0 and 1, the brightness is the reading
\* of port 1.
C18_Witness ==
    /\ last.op = "onMessage"
    /\ Len(last.data) = 37
    /\ ~updateDevices
    /\ Len(sensorPorts) = 4
    /\ sensorPorts[1] = "color" /\ sensorPorts[2] = "color"
    /\ SubSeq(last.data, 6, 13) = F1 \o F150
    /\ sensors.brightness = [sign |-> 0, exp |-> 134, frac |-> 1441792]

\* ------------------------------------------------------------------------
\* The coast that follows turnOnFor
\* ------------------------------------------------------------------------
\* The motor operations with an event loop that runs a timeout that is due
\* and a clock that does not stop.
NextCoast ==
    \/ bt = "null" /\ Scan
    \/ OnConnect
    \/ DisconnectConnected
    \/ \E id \in IntervalIds : FirstPoll(id)
    \/ \E data \in MotorReplies : OnMessage(data)
    \/ \E v \in Powers : SetPower(2, v)
    \/ CountBelow(MaxSends) /\ TurnOnFor(2, 100)
    \/ CoastAfter(2, 100)
    \/ Coast(2)
    \/ TimeoutFires
    \/ \E dt \in TimeSteps : Advance(dt)

SpecCoast ==
    /\ Init
    /\ [][NextCoast]_vars
    /\ WF_vars(TimeoutFires)
    /\ WF_vars(\E dt \in TimeSteps : Advance(dt))

\* turnOnFor() of the motor of port p has just stored the command id c.
turnedOn(p, c) ==
    /\ last.op = "turnOnFor"
    /\ last.port = p
    /\ isConnected
    /\ motors[p + 1] # Null
    /\ heap[motors[p + 1]].power # 0
    /\ heap[motors[p + 1]].commandID = c
\* The timeout armed with c has just written one coast command for port p
\* and cleared the command id.
coasted(p, c) ==
    /\ last.op = "timeout"
    /\ last.port = p
    /\ last.arg = c
    /\ Len(sends) = 1
    /\ sends[1].written
    /\ sends[1].message = coastFrame(p)
    /\ motors[p + 1] # Null
    /\ heap[motors[p + 1]].commandID = Null
\* The session is not connected, the motor is gone or its power is 0, or
\* turnOnFor() or coastAfter() was called again and stored another id.
released(p, c) ==
    \/ ~isConnected
    \/ motors[p + 1] = Null
    \/ heap[motors[p + 1]].power = 0
    \/ /\ last.op \in {"turnOnFor", "coastAfter"}
       /\ last.port = p
       /\ heap[motors[p + 1]].commandID # c

\* C19: after turnOnFor() of a motor whose power is not 0 on a connected
\* session, the timeout of that call eventually fires, writes exactly one
\* coast command for the port and clears the command id, unless the
\* session is disconnected, the power is set to 0 or turnOnFor() or
\* coastAfter() is called on the motor again before that.
C19_CoastEventuallyWritten ==
    \A p \in MotorPorts : \A c \in Uids :
        turnedOn(p, c) ~> (coasted(p, c) \/ released(p, c))
\* The timeout of a call that was not superseded has written the coast
\* command of port 2 and cleared the command id.
C19_Witness ==
    /\ \E c \in Uids : coasted(2, c)
    /\ last.was = <<FALSE, 100>>
    /\ isConnected
    /\ heap[motors[3]].power # 0

\* ------------------------------------------------------------------------
\* The ramps of turnOnFor
\* ------------------------------------------------------------------------
\* Durations around 0, around twice the ramp, and long ones; the longest has
\* a run that takes four bytes.
SplitDurations ==
    {0, 1, 2, 3, 98, 99, 100, 101, 150, 1000, 32867,
     -1, -2, -99, -100, -101, -1000}

NextSplit ==
    \/ bt = "null" /\ Scan
    \/ OnConnect
    \/ \E id \in IntervalIds : FirstPoll(id)
    \/ \E data \in MotorReplies : OnMessage(data)
    \/ \E d \in Directions : SetDirection(2, d)
    \/ \E v \in {1, 50, 100} : SetPower(2, v)
    \/ \E ms \in SplitDurations :
          timeouts = <<>> /\ CountBelow(MaxSends) /\ TurnOnFor(2, ms)
    \/ TimeoutFires
    \/ \E dt \in TimeSteps : Advance(dt)

SpecSplit == Init /\ [][NextSplit]_vars

\* The ramp-up, the run and the ramp-down that a command of turnOnFor
\* carries.
rampupIn(msg) == msg[14]
runIn(msg) ==
    IF msg[15] = TWO_BYTES
    THEN msg[16] + (256 * msg[17])
    ELSE msg[16] + (256 * msg[17]) + (65536 * msg[18]) + (16777216 * msg[19])
rampdownIn(msg) == msg[Len(msg) - 1]

\* C20: the command of turnOnFor(d) carries a ramp-up, a run and a
\* ramp-down that are not negative and add up to n = |d|: 50, n - 100 and
\* 50 when n >= 100, and floor(n / 2), 0 and n - floor(n / 2) when n < 100.
C20_RampSplit ==
    [][(last'.op = "turnOnFor" /\ sends' # <<>>) =>
          LET msg == sends'[1].message
              n == IF last'.arg < 0 THEN -last'.arg ELSE last'.arg
              rampup == rampupIn(msg)
              run == runIn(msg)
              rampdown == rampdownIn(msg)
          IN  /\ msg[8] = OPOUTPUT_TIME_SPEED
              /\ rampup >= 0 /\ run >= 0 /\ rampdown >= 0
              /\ rampup + run + rampdown = n
              /\ n >= 100 => (rampup = 50 /\ run = n - 100 /\ rampdown = 50)
              /\ n < 100 => (rampup = n \div 2 /\ run = 0 /\ rampdown = n - (n \div 2))
      ]_vars
\* turnOnFor(-99) has sent a command with the ramps 49 and 50 and no run.
C20_Witness ==
    /\ last.op = "turnOnFor"
    /\ last.arg = -99
    /\ Len(sends) = 1
    /\ rampupIn(sends[1].message) = 49
    /\ runIn(sends[1].message) = 0
    /\ rampdownIn(sends[1].message) = 50

\* ------------------------------------------------------------------------
\* The run values
\* ------------------------------------------------------------------------
\* _runValues(run), called on its own.
RunValues(run) ==
    /\ last' = Op("runValues", -1, run, runValues(run), <<>>)
    /\ sends' = <<>>
    /\ UNCHANGED <<bt, sensorPorts, motorPorts, sensors, motors, heap,
                   pollingIntervalID, intervals, pollingCounter, updateDevices,
                   rateLimiter, timeouts, discovered, ticksSinceDiscovery>>
    /\ windowWrites' = writesInWindow(rateLimiter', sends')
    /\ polledSinceConnect' = polledAfter
    /\ inFlight' = inFlightAfter

\* Runs around 0, 0xff, 0x7fff, 0xffff, 0xffffff and the greatest int32.
Runs ==
    (0..100) \cup (250..260) \cup (32760..32775) \cup (65530..65540)
      \cup {16777215, 16777216, 2147483646, 2147483647}

NextRun == \E run \in Runs : RunValues(run)

SpecRun == Init /\ [][NextRun]_vars

\* The number that the bytes after the tag of run values stand for.
runOf(values) ==
    IF Len(values) = 3
    THEN values[2] + (256 * values[3])
    ELSE values[2] + (256 * values[3]) + (65536 * values[4])
           + (16777216 * (values[5] % 128)) + (IF values[5] >= 128 THEN -2147483647 - 1 ELSE 0)

\* C21 as stated: a run of up to 0x7fff is encoded with the tag 0x82 and
\* two bytes, a longer one with the tag 0x83 and four bytes, and the bytes
\* stand for the run.
C21_TwoBytesUpTo7fff ==
    last.op = "runValues" =>
        /\ last.arg <= 32767 => (Len(last.data) = 3 /\ last.data[1] = 130)
        /\ last.arg > 32767 => (Len(last.data) = 5 /\ last.data[1] = 131)
        /\ runOf(last.data) = last.arg
\* C21, amended: a run below 0x7fff is encoded with the tag 0x82 and two
\* bytes, a run of 0x7fff or more with the tag 0x83 and four bytes; the
\* bytes are in 0..255 and stand for the run, low byte first.
C21_TwoBytesBelow7fff ==
    last.op = "runValues" =>
        /\ last.arg < 32767 => (Len(last.data) = 3 /\ last.data[1] = 130)
        /\ last.arg >= 32767 => (Len(last.data) = 5 /\ last.data[1] = 131)
        /\ \A k \in 2..Len(last.data) : last.data[k] \in 0..255
        /\ runOf(last.data) = last.arg
\* The run 0x7fff is encoded with four bytes.
C21_Witness ==
    /\ last.op = "runValues"
    /\ last.arg = 32767
    /\ last.data = <<131, 255, 127, 0, 0>>

\* C22: the speed byte of the command of turnOnFor(d), d not 0, of a motor
\* with a power from 1 to 100 is the two's complement in 8 bits of
\* power * direction when d > 0 and of -(power * direction) when d < 0,
\* and the ramps and the run of the command add up to |d|.
C22_SpeedByte ==
    [][(last'.op = "turnOnFor" /\ sends' # <<>> /\ last'.arg # 0) =>
          LET msg == sends'[1].message
              o == motors[last'.port + 1]
              d == last'.arg
              s == IF d > 0 THEN heap[o].power * heap[o].direction
                   ELSE -(heap[o].power * heap[o].direction)
          IN  /\ heap[o].power \in 1..100
              /\ heap[o].direction \in {1, -1}
              /\ msg[11] = ONE_BYTE
              /\ msg[12] = IF s >= 0 THEN s ELSE 256 + s
              /\ msg[12] = IF (d > 0) = (heap[o].direction = 1)
                           THEN heap[o].power ELSE 256 - heap[o].power
              /\ rampupIn(msg) + runIn(msg) + rampdownIn(msg) = IF d < 0 THEN -d ELSE d
      ]_vars
\* turnOnFor(-101) of a motor with the power 100 and the direction 1 has
\* sent the speed byte 156.
C22_Witness ==
    /\ last.op = "turnOnFor"
    /\ last.arg = -101
    /\ Len(sends) = 1
    /\ heap[motors[3]].power = 100
    /\ heap[motors[3]].direction = 1
    /\ sends[1].message[12] = 156
    /\ runIn(sends[1].message) = 1

\* The timeouts that hold the command id of the motor of port p.
timersOf(ts, h, p) ==
    {k \in 1..Len(ts) : ts[k].commandId = h[motors[p + 1]].commandID}

\* C23: turnOnFor(d) of a motor whose power is not 0 arms exactly one
\* timeout, whether its command was written or not, and the timeout is due
\* no earlier than |d| + 1000 ms after the call.
C23_CoastAfterRun ==
    [][(last'.op = "turnOnFor" /\ heap[motors[last'.port + 1]].power # 0) =>
          LET d == last'.arg
              armed == timersOf(timeouts', heap', last'.port)
          IN  /\ Len(timeouts') = Len(timeouts) + 1
              /\ Cardinality(armed) = 1
              /\ \A k \in armed :
                    timeouts'[k].remaining >= (IF d < 0 THEN -d ELSE d) + 1000
      ]_vars
\* What holds of the timeout: it is due d + 1000 ms after the call, and at
\* once when d + 1000 is negative.
C23_CoastAfterSignedTime ==
    [][(last'.op = "turnOnFor" /\ heap[motors[last'.port + 1]].power # 0) =>
          LET d == last'.arg
              armed == timersOf(timeouts', heap', last'.port)
          IN  /\ Len(timeouts') = Len(timeouts) + 1
              /\ Cardinality(armed) = 1
              /\ \A k \in armed :
                    timeouts'[k].remaining = (IF d + 1000 < 0 THEN 0 ELSE d + 1000)
      ]_vars

\* ------------------------------------------------------------------------
\* The bytes of the commands
\* ------------------------------------------------------------------------
NextFrames ==
    \/ bt = "null" /\ Scan
    \/ OnConnect
    \/ \E id \in IntervalIds : (isConnected => pollingCounter < MaxPoll) /\ PollValues(id)
    \/ \E data \in DeviceLists : OnMessage(data)
    \/ \E freq \in {0, 255, 256, 440, 65535}, time \in {100, 1000} :
          CountBelow(MaxSends) /\ Beep(freq, time)
    \/ \E p \in Ports, v \in {1, 100} : SetPower(p, v)
    \/ \E p \in Ports : timeouts = <<>> /\ CountBelow(MaxSends) /\ TurnOnFor(p, 100)
    \/ \E p \in Ports : Coast(p)
    \/ StopAll
    \/ TimeoutFires
    \/ \E dt \in TimeSteps : Advance(dt)

SpecFrames == Init /\ [][NextFrames]_vars

\* Every element of a command is an integer from 0 to 255.
isBytes(msg) == \A k \in 1..Len(msg) : msg[k] \in 0..255

\* C24: every element of every command built by beep, turnOnFor, coast,
\* stopSound and _pollValues is an integer from 0 to 255.
C24_CommandsAreBytes ==
    [][\A k \in 1..Len(sends') : isBytes(sends'[k].message)]_vars
\* What holds: the commands of turnOnFor, coast, stopAll and of the
\* device-list poll are made of bytes, and so is a beep whose frequency and
\* time are below 256.
C24_MotorCommandsAreBytes ==
    [][(\/ last'.op \in {"turnOnFor", "coast", "timeout", "stopAll"}
        \/ last'.op = "pollValues" /\ pollingCounter % 20 = 0
        \/ last'.op = "beep" /\ last'.arg < 256 /\ sends'[1].message[16] < 256) =>
          \A k \in 1..Len(sends') : isBytes(sends'[k].message)
      ]_vars
\* The commands that are not made of bytes: a beep with a frequency or a
\* time above 255, and a value poll that reads a gyro port or a port of
\* which no device list has told the kind.
C24_NotBytes ==
    [][(\E k \in 1..Len(sends') : ~isBytes(sends'[k].message)) =>
          \/ last'.op = "beep"
          \/ /\ last'.op = "pollValues"
             /\ \E i \in 0..3 : PortAt(sensorPorts, i) \in {"gyro", "undefined"}
      ]_vars

\* The global indices that the payload of a value poll writes to: each
\* follows the tag GLOBAL_VARIABLE_ONE_BYTE.
globalIndices(msg) ==
    {msg[k + 1] : k \in {j \in 8..(Len(msg) - 1) : msg[j] = GLOBAL_VARIABLE_ONE_BYTE}}

\* C25: the allocation of the command of _pollValues covers what the
\* payload writes.  A value poll writes 4 bytes at each of its global
\* indices, the greatest of which is 28, and allocates 32; the device-list
\* poll writes 32 bytes at index 0 and 1 byte at index 32, and allocates 33.
C25_AllocationCoversWrites ==
    [][(last'.op = "pollValues" /\ isConnected) =>
          LET msg == sends'[1].message
          IN  IF msg[8] = OPINPUT_DEVICE_LIST
              THEN /\ SubSeq(msg, 9, 13) = <<ONE_BYTE, 32, 96, GLOBAL_VARIABLE_ONE_BYTE, 32>>
                   /\ allocationOf(msg) >= 0 + 32
                   /\ allocationOf(msg) >= 32 + 1
              ELSE /\ globalIndices(msg) # {}
                   /\ \A g \in globalIndices(msg) : g \in 0..255 /\ allocationOf(msg) >= g + 4
                   /\ 28 \in globalIndices(msg)
      ]_vars
\* A value poll that reads the sensor ports 1 and 2 writes at the indices
\* 4, 8, 16, 20, 24, 28 and allocates 32.
C25_Witness ==
    /\ last.op = "pollValues"
    /\ Len(sends) = 1
    /\ globalIndices(sends[1].message) = {4, 8, 16, 20, 24, 28}
    /\ allocationOf(sends[1].message) = 32

\* The mode of a kind of sensor (ev3_mode.js); a gyro sensor and a port of
\* unknown kind have none.
modeOf(kind) ==
    CASE kind = "touch" -> 0
      [] kind \in {"color", "ultrasonic"} -> 1
      [] OTHER -> undefined
\* The read of sensor port i and the position read of motor port i, byte by
\* byte.
readFrame(i) ==
    IF PortAt(sensorPorts, i) = "none" THEN <<>>
    ELSE <<157, 0, i, 0, modeOf(PortAt(sensorPorts, i)), 225, 4 * i>>
countFrame(i) == <<179, 0, i, 225, 16 + (4 * i)>>

\* C26: the payload of a value poll is, in this order, one read for every
\* sensor port whose kind is not 'none', in ascending order, with the port
\* and the mode of its kind, and the four position reads of the motor
\* ports 0, 1, 2, 3, whichever motors exist.  A port of which no device
\* list has told the kind is read like a port with a sensor.
C26_ValuePollPayload ==
    [][(/\ last'.op = "pollValues"
        /\ isConnected
        /\ pollingCounter % 20 # 0) =>
          LET msg == sends'[1].message
          IN  SubSeq(msg, 8, Len(msg)) =
                  readFrame(0) \o readFrame(1) \o readFrame(2) \o readFrame(3)
                    \o countFrame(0) \o countFrame(1) \o countFrame(2) \o countFrame(3)
      ]_vars
\* A value poll with sensors at the ports 1 and 2 and a motor at port 0
\* reads the ports 1 and 2 and the four positions.
C26_Witness ==
    /\ last.op = "pollValues"
    /\ Len(sends) = 1
    /\ sensorPorts = <<"none", "color", "ultrasonic", "none">>
    /\ motors[1] # Null
    /\ Len(sends[1].message) = 7 + 14 + 20
    /\ SubSeq(sends[1].message, 8, 21) = <<157, 0, 1, 0, 1, 225, 4, 157, 0, 2, 0, 1, 225, 8>>

\* ------------------------------------------------------------------------
\* Queries and their replies
\* ------------------------------------------------------------------------
\* The brick answers the oldest query that was written to it: a device-list
\* query with a device list, a value poll with values.
Answer ==
    /\ inFlight # Untracked
    /\ inFlight # <<>>
    /\ \E data \in (IF Head(inFlight) = "deviceList" THEN PollReplies ELSE ValueReplies) :
          OnMessage(data)

NextTransport ==
    \/ bt = "null" /\ Scan
    \/ OnConnect
    \/ \E id \in IntervalIds :
          /\ isConnected => (pollingCounter < MaxPollDeep /\ Len(inFlight) < MaxInFlight)
          /\ PollValues(id)
    \/ Answer
    \/ \E dt \in TimeSteps : Advance(dt)

\* The session as constructed, with no query in flight.
InitTransport == Constructed /\ inFlight = <<>>

SpecTransport == InitTransport /\ [][NextTransport]_vars

\* C27: a reply that _onMessage decodes as a device list answers a
\* device-list query, and a reply that it decodes as values answers a value
\* poll, when the brick answers the queries written to it in order.
C27_RepliesMatchQueries ==
    [][(/\ last'.op = "onMessage"
        /\ inFlight # <<>>
        /\ At(last'.data, 4) = DIRECT_REPLY) =>
          /\ updateDevices => Head(inFlight) = "deviceList"
          /\ (~updateDevices /\ ~includesUndefined(sensorPorts)
                 /\ ~includesUndefined(motorPorts)) => Head(inFlight) = "values"
      ]_vars

\* ------------------------------------------------------------------------
\* Coast timeouts that outlive their session
\* ------------------------------------------------------------------------
\* The timeout first in line was armed by a motor object that reset() has
\* since dropped from the motor table: only its closure still refers to it.
firesAfterReset == Head(timeouts).motor \notin {motors[k] : k \in 1..4}

\* C28: the callback of a coast timeout armed before reset() or disconnect
\* writes no message and leaves the port tables, the sensor readings and
\* the motor table as they were, whatever happened in between.
C28_StaleTimerHarmless ==
    [][(last'.op = "timeout" /\ firesAfterReset) =>
          /\ \A k \in 1..Len(sends') : ~sends'[k].written
          /\ UNCHANGED <<sensorPorts, motorPorts, sensors, motors>>
      ]_vars

\* The callback of such a timeout writes nothing while no connection is up,
\* and never changes the tables of the session.
C28_StaleTimerKeepsSession ==
    [][(last'.op = "timeout" /\ firesAfterReset) =>
          /\ ~isConnected => \A k \in 1..Len(sends') : ~sends'[k].written
          /\ UNCHANGED <<sensorPorts, motorPorts, sensors, motors>>
      ]_vars

\* ------------------------------------------------------------------------
\* The layout of a command
\* ------------------------------------------------------------------------
\* C29: in the command that generateCommand returns, bytes 2 and 3 are 0,
\* byte 4 is the command type, bytes 5 and 6 are the allocation modulo 256
\* and the allocation divided by 256, and the bytes from index 7 on are the
\* byteCommands, in order.
C29_FrameLayout ==
    last.op = "generateCommand" =>
        LET msg == last.data
            type == last.was[1]
            allocation == last.was[2]
        IN  /\ msg[3] = 0
            /\ msg[4] = 0
            /\ msg[5] = type
            /\ msg[6] = allocation % 256
            /\ msg[7] = allocation \div 256
            /\ SubSeq(msg, 8, Len(msg)) = payloadOf(last.arg)

\* The same layout for allocations below 256, and for the greater ones with
\* byte 6 left out.
C29_FrameLayoutOneByte ==
    last.op = "generateCommand" =>
        LET msg == last.data
            type == last.was[1]
            allocation == last.was[2]
        IN  /\ msg[3] = 0
            /\ msg[4] = 0
            /\ msg[5] = type
            /\ msg[6] = allocation % 256
            /\ allocation < 256 => msg[7] = 0
            /\ allocation >= 256 => msg[7] = 255
            /\ SubSeq(msg, 8, Len(msg)) = payloadOf(last.arg)

\* ------------------------------------------------------------------------
\* The buttons
\* ------------------------------------------------------------------------
\* isButtonPressed(port)
isButtonPressed(port) == sensors.buttons[port + 1] = FloatOne

\* A value reply is decoded: the device list is known and is not awaited.
decodesValues ==
    /\ last'.op = "onMessage"
    /\ At(last'.data, 4) = DIRECT_REPLY
    /\ ~updateDevices
    /\ Len(sensorPorts) = 4
    /\ Len(last'.data) = 37

\* C30: each of the four buttons is stored as 0 or 1 at all times, and once
\* a value reply is decoded isButtonPressed(p) holds for a touch port p
\* exactly when the reading of port p in that reply is a number other
\* than 0.
C30_ButtonFlags ==
    /\ [](\A p \in 0..3 : sensors.buttons[p + 1] \in {FloatZero, FloatOne})
    /\ [][decodesValues =>
             \A p \in portsOf("touch") :
                 isButtonPressed(p)' <=> Truthy(sensorValue(last'.data, p))
         ]_vars

\* The button of a touch port holds the reading itself, 0 for a reading of
\* 0 or NaN, and isButtonPressed(p) holds exactly when the reading is 1.
C30_PressedIsReadingOne ==
    [][decodesValues =>
          \A p \in portsOf("touch") :
              /\ sensors'.buttons[p + 1] = ValueOrZero(sensorValue(last'.data, p))
              /\ isButtonPressed(p)' <=> sensorValue(last'.data, p) = FloatOne
      ]_vars

\* ------------------------------------------------------------------------
\* A poll that the rate limiter rejects
\* ------------------------------------------------------------------------
\* The message asks the brick for the device list or for values.
isQuery(msg) == msg[8] \in {OPINPUT_DEVICE_LIST, OPINPUT_READSI, OPOUTPUT_GET_COUNT}
\* The query that _pollValues builds in the current state.
queryNow ==
    IF isDiscoveryCycle(pollingCounter)
    THEN generateCommand(DIRECT_COMMAND_REPLY, deviceListCmds, deviceListAllocation)
    ELSE generateCommand(DIRECT_COMMAND_REPLY, valueCmds(sensorPorts), valueAllocation)

\* C31: a connected _pollValues, whether or not the rate limiter lets its
\* query through, adds one to the counter, sets this._updateDevices on a
\* discovery cycle and leaves it alone otherwise, arms no timeout, registers
\* no interval and changes nothing else of the session.  A query is only
\* ever written by the _pollValues that built it, from the state it ran in:
\* a rejected query is not written by a later operation.
C31_RejectedPollNotRetried ==
    [][/\ (last'.op = "pollValues" /\ isConnected) =>
             /\ pollingCounter' = pollingCounter + 1
             /\ updateDevices' = (isDiscoveryCycle(pollingCounter) \/ updateDevices)
             /\ timeouts' = timeouts
             /\ DOMAIN intervals' = DOMAIN intervals
             /\ Len(sends') = 1
             /\ UNCHANGED <<bt, sensorPorts, motorPorts, sensors, motors, heap,
                            pollingIntervalID>>
       /\ \A k \in 1..Len(sends') :
             (sends'[k].written /\ isQuery(sends'[k].message)) =>
                 /\ last'.op = "pollValues"
                 /\ sends'[k].message = queryNow
      ]_vars
\* A device-list query that the rate limiter rejected: the counter has
\* advanced and this._updateDevices is set.
C31_Witness ==
    /\ last.op = "pollValues"
    /\ isConnected
    /\ Len(sends) = 1
    /\ sends[1].message[8] = OPINPUT_DEVICE_LIST
    /\ ~sends[1].written
    /\ pollingCounter = 1
    /\ updateDevices
\* A value query that the rate limiter rejected.
C31_WitnessValues ==
    /\ last.op = "pollValues"
    /\ isConnected
    /\ Len(sends) = 1
    /\ isQuery(sends[1].message)
    /\ sends[1].message[8] # OPINPUT_DEVICE_LIST
    /\ ~sends[1].written
    /\ pollingCounter = 2

\* ------------------------------------------------------------------------
\* A poll on a session that is not connected
\* ------------------------------------------------------------------------
\* C32 as stated: a _pollValues on a session that is not connected writes
\* no message, leaves the counter and this._updateDevices alone and leaves
\* every registered interval registered.
C32_OfflineTickKeepsInterval ==
    [][(last'.op = "pollValues" /\ ~isConnected) =>
          /\ \A k \in 1..Len(sends') : ~sends'[k].written
          /\ UNCHANGED <<pollingCounter, updateDevices>>
          /\ DOMAIN intervals' = DOMAIN intervals
      ]_vars

\* C32: a _pollValues on a session that is not connected sends nothing,
\* leaves the counter and this._updateDevices alone and clears the interval
\* whose id is stored in this._pollingIntervalID, and no other; _onConnect
\* registers a new interval, so that a connected session always has the
\* interval of its stored id registered.
C32_OfflineTickClearsInterval ==
    /\ [](isConnected => pollingIntervalID \in DOMAIN intervals)
    /\ [][(last'.op = "pollValues" /\ ~isConnected) =>
             /\ sends' = <<>>
             /\ UNCHANGED <<pollingCounter, updateDevices, pollingIntervalID>>
             /\ DOMAIN intervals' = (DOMAIN intervals) \ {pollingIntervalID}
         ]_vars
\* After a scan() on a connected session the interval ticks once and is
\* gone, while its id is still stored.
C32_Witness ==
    /\ last.op = "pollValues"
    /\ ~isConnected
    /\ pollingIntervalID # Null
    /\ last.arg = pollingIntervalID
    /\ pollingIntervalID \notin DOMAIN intervals

\* ------------------------------------------------------------------------
\* The value poll and the reply the brick makes of it
\* ------------------------------------------------------------------------
\* What the brick reads: a different float word at each sensor port and a
\* different count at each motor port.
brickSensor(i) == <<F1, F150, F42345, F100>>[i + 1]
brickCount(j) == <<I1, INeg1, IMax, IMin>>[j + 1]

\* The global variables after the four bytes `word` are written at `index`.
writeGlobal(g, index, word) ==
    [n \in 1..Len(g) |-> IF (n - 1) \in index..(index + 3) THEN word[n - index] ELSE g[n]]

\* The brick runs the commands of a value poll from byte k on: a READSI
\* command (7 bytes: port at 2, global index at 6) and a GET_COUNT command
\* (5 bytes: port at 2, global index at 4) write what they read at the
\* global index they name.
RECURSIVE runCommands(_, _, _)
runCommands(msg, k, g) ==
    IF k > Len(msg) THEN g
    ELSE IF msg[k] = OPINPUT_READSI
    THEN runCommands(msg, k + 7, writeGlobal(g, msg[k + 6], brickSensor(msg[k + 2])))
    ELSE IF msg[k] = OPOUTPUT_GET_COUNT
    THEN runCommands(msg, k + 5, writeGlobal(g, msg[k + 4], brickCount(msg[k + 2])))
    ELSE g

\* The commands of a value poll from byte k on: the opcode, the port and the
\* global index of each.
RECURSIVE commandsOf(_, _)
commandsOf(msg, k) ==
    IF k > Len(msg) THEN {}
    ELSE IF msg[k] = OPINPUT_READSI
    THEN {[op |-> msg[k], port |-> msg[k + 2], index |-> msg[k + 6]]}
            \cup commandsOf(msg, k + 7)
    ELSE IF msg[k] = OPOUTPUT_GET_COUNT
    THEN {[op |-> msg[k], port |-> msg[k + 2], index |-> msg[k + 4]]}
            \cup commandsOf(msg, k + 5)
    ELSE {}

\* The reply to a value poll: the header and the global variables, as many
\* as the command allocates, 0 where nothing was written.
brickReply(msg) ==
    reply(DIRECT_REPLY, runCommands(msg, 8, [n \in 1..allocationOf(msg) |-> 0]))

\* The brick answers the value poll that was just written.
AnswerValues ==
    /\ last.op = "pollValues"
    /\ sends # <<>>
    /\ sends[1].written
    /\ sends[1].message[8] # OPINPUT_DEVICE_LIST
    /\ OnMessage(brickReply(sends[1].message))

\* Device lists with a touch, color or ultrasonic sensor or nothing at each
\* sensor port, and with two sets of motors.
LayoutCodes == {16, 29, 30, 126}
LayoutLists ==
    {reply(DIRECT_REPLY, deviceListBuffer(<<a, b, c, d>>, m)) :
        a \in LayoutCodes, b \in LayoutCodes, c \in LayoutCodes, d \in LayoutCodes,
        m \in {<<7, 126, 8, 7>>, <<126, 8, 126, 126>>}}

NextLayout ==
    \/ bt = "null" /\ Scan
    \/ OnConnect
    \/ \E id \in IntervalIds : (isConnected => pollingCounter < MaxPoll) /\ PollValues(id)
    \/ \E data \in LayoutLists : updateDevices /\ OnMessage(data)
    \/ AnswerValues
    \/ \E dt \in TimeSteps : Advance(dt)

SpecLayout == Init /\ [][NextLayout]_vars

\* C33: in a value poll the read of sensor port i names the global index
\* 4 * i and the position read of motor port j the index 16 + 4 * j,
\* whichever sensor ports are read; and when the brick's reply to that poll
\* is decoded as values, the button of a touch port holds what the brick read at that
\* port, the brightness and the distance what it read at the highest color
\* and ultrasonic port, and the position of the motor of port j the count
\* of port j.
C33_PollAndParseAgree ==
    [][/\ (/\ last'.op = "pollValues"
            /\ isConnected
            /\ ~isDiscoveryCycle(pollingCounter)) =>
             LET cs == commandsOf(sends'[1].message, 8)
             IN  /\ \A c \in cs :
                       c.index = IF c.op = OPINPUT_READSI THEN 4 * c.port
                                 ELSE 16 + (4 * c.port)
                 /\ {c.port : c \in {d \in cs : d.op = OPINPUT_READSI}} =
                       {i \in 0..3 : PortAt(sensorPorts, i) # "none"}
                 /\ {c.port : c \in {d \in cs : d.op = OPOUTPUT_GET_COUNT}} = 0..3
       /\ (/\ last'.op = "onMessage"
            /\ last.op = "pollValues"
            /\ sends # <<>>
            /\ sends[1].written
            /\ sends[1].message[8] # OPINPUT_DEVICE_LIST
            /\ last'.data = brickReply(sends[1].message)
            /\ ~updateDevices
            /\ Len(sensorPorts) = 4) =>
             /\ \A i \in 0..3 :
                   sensors'.buttons[i + 1] =
                       IF i \in portsOf("touch") THEN reading(brickSensor(i))
                       ELSE sensors.buttons[i + 1]
             /\ sensors'.brightness =
                   IF portsOf("color") # {}
                   THEN reading(brickSensor(greatest(portsOf("color"))))
                   ELSE sensors.brightness
             /\ sensors'.distance =
                   IF portsOf("ultrasonic") # {}
                   THEN reading(brickSensor(greatest(portsOf("ultrasonic"))))
                   ELSE sensors.distance
             /\ \A j \in 0..3 :
                   motors[j + 1] # Null =>
                       heap'[motors[j + 1]].position = position(brickCount(j))
      ]_vars
\* Sensor port 0 is empty and is not read: the read of port 2 is the second
\* command of the poll, and the button of port 2 holds the reading of port 2
\* and the motor of port 3 the count of port 3.
C33_Witness ==
    /\ last.op = "onMessage"
    /\ sensorPorts = <<"none", "color", "touch", "ultrasonic">>
    /\ motors[4] # Null
    /\ Len(last.data) = 37
    /\ sensors.buttons[3] = reading(F42345)
    /\ sensors.brightness = reading(F150)
    /\ sensors.distance = reading(F100)
    /\ heap[motors[4]].position = position(IMin)
    /\ heap[motors[1]].position = position(I1)

\* ------------------------------------------------------------------------
\* A second device list
\* ------------------------------------------------------------------------
\* Device lists between which port A goes from a large to a medium motor,
\* sensor port 0 from a touch to a color sensor, and a value reply.
RediscoverLists ==
    {reply(DIRECT_REPLY, deviceListBuffer(c[1], c[2])) :
        c \in {<<<<16, 16, 126, 126>>, <<7, 126, 8, 126>>>>,
               <<<<29, 16, 126, 126>>, <<8, 7, 126, 126>>>>}}
RediscoverValues ==
    {reply(DIRECT_REPLY, valueBuffer(<<F1, F150, F42345, F1>>, <<INeg1, I1, IMax, I0>>))}

\* The motor of port A is used between the first device list and the poll
\* that asks for the second.
NextRediscover ==
    \/ bt = "null" /\ Scan
    \/ OnConnect
    \/ \E id \in IntervalIds :
          (isConnected => pollingCounter <= DiscoveryPeriod) /\ PollValues(id)
    \/ \E data \in RediscoverLists : updateDevices /\ OnMessage(data)
    \/ \E data \in RediscoverValues : pollingCounter = DiscoveryPeriod /\ OnMessage(data)
    \/ pollingCounter = DiscoveryPeriod /\ SetPower(0, 100)
    \/ pollingCounter = DiscoveryPeriod /\ SetDirection(0, -1)
    \/ pollingCounter = DiscoveryPeriod /\ timeouts = <<>> /\ CountBelow(MaxSends)
          /\ TurnOnFor(0, 1000)
    \/ \E dt \in TimeSteps : Advance(dt)

SpecRediscover == Init /\ [][NextRediscover]_vars

\* C34: a device list that is parsed leaves the distance, the brightness
\* and the buttons as they were, as well as the counter, the rate limiter,
\* the timeouts and the intervals; a port that had a motor and whose new
\* label is not 'none' keeps the same motor object, with its fields as they
\* were.
C34_DeviceListKeepsTheRest ==
    [][(/\ last'.op = "onMessage"
        /\ At(last'.data, 4) = DIRECT_REPLY
        /\ updateDevices) =>
          /\ sensors' = sensors
          /\ UNCHANGED <<bt, pollingCounter, rateLimiter, timeouts, intervals,
                         pollingIntervalID>>
          /\ ~updateDevices'
          /\ \A p \in 0..3 :
                (motors[p + 1] # Null /\ deviceLabel(At(last'.data, 21 + p)) # "none") =>
                    /\ motors'[p + 1] = motors[p + 1]
                    /\ heap'[motors[p + 1]] = heap[motors[p + 1]]
      ]_vars
\* The large motor of port A, with a power of 100, the direction -1, a
\* position of -1 and a coast pending, is kept when the second device list
\* reports a medium motor there; button 0 keeps its 1 although port 0 now
\* has a color sensor.
C34_Witness ==
    /\ last.op = "onMessage"
    /\ At(last.data, 21) = 8
    /\ ~updateDevices
    /\ motors[1] # Null
    /\ last.was[1] = motors[1]
    /\ heap[motors[1]].type = "largeMotor"
    /\ heap[motors[1]].power = 100
    /\ heap[motors[1]].direction = -1
    /\ heap[motors[1]].position = Num(-1)
    /\ heap[motors[1]].commandID # Null
    /\ sensorPorts[1] = "color"
    /\ sensors.buttons[1] = FloatOne

C35_WitnessReset ==
    /\ last.op \in {"disconnect", "reset"}
    /\ pollingCounter > 0
    /\ motorPorts = <<>>
    /\ motors = NoMotors

\* ------------------------------------------------------------------------
\* The port tables are set as a whole
\* ------------------------------------------------------------------------
\* The table has a label for each of the four ports.
allKnown(ports) == Len(ports) = 4 /\ \A k \in 1..4 : ports[k] # "undefined"

\* C36: at all times the two port tables are both empty or both hold a
\* label for each of the four ports, so that the test for an undefined port
\* in _onMessage never keeps a value reply from being decoded.
C36_PortTablesWhole ==
    /\ \/ sensorPorts = <<>> /\ motorPorts = <<>>
       \/ allKnown(sensorPorts) /\ allKnown(motorPorts)
    /\ discovered => allKnown(sensorPorts) /\ allKnown(motorPorts)
    /\ portsKnown(sensorPorts, motorPorts)
\* A value reply is decoded after a device list with sensors at three ports
\* and a code that is not in the table at the fourth.
C36_Witness ==
    /\ last.op = "onMessage"
    /\ Len(last.data) = 37
    /\ ~updateDevices
    /\ discovered
    /\ sensorPorts = <<"color", "color", "gyro", "none">>
    /\ sensors.brightness # FloatZero

C37_WitnessDisconnect ==
    /\ last.op = "disconnect"
    /\ pollingCounter = 2
    /\ rateLimiter.count > 0

\* ------------------------------------------------------------------------
\* A device list that is cut short
\* ------------------------------------------------------------------------
\* Success replies without a buffer, with the codes of two sensor ports
\* only, and with a buffer that ends after the codes of the motor ports A
\* and B.
CutReplies ==
    { reply(DIRECT_REPLY, <<>>),
      reply(DIRECT_REPLY, <<16, 29>>),
      reply(DIRECT_REPLY,
            SubSeq(deviceListBuffer(<<16, 16, 126, 126>>, <<7, 126, 8, 126>>), 1, 18)) }

NextCut ==
    \/ bt = "null" /\ Scan
    \/ OnConnect
    \/ \E id \in IntervalIds :
          (isConnected => pollingCounter <= DiscoveryPeriod) /\ PollValues(id)
    \/ \E data \in RediscoverLists \cup CutReplies : updateDevices /\ OnMessage(data)
    \/ \E data \in RediscoverValues : pollingCounter = DiscoveryPeriod /\ OnMessage(data)
    \/ \E dt \in TimeSteps : Advance(dt)

SpecCut == Init /\ [][NextCut]_vars

\* C38: when a success reply is parsed as a device list, a port whose code
\* byte the reply does not have gets the label 'none', a motor port among
\* them has no motor afterwards, and this._updateDevices is cleared.
C38_CutDeviceList ==
    [][(/\ last'.op = "onMessage"
        /\ At(last'.data, 4) = DIRECT_REPLY
        /\ updateDevices) =>
          /\ ~updateDevices'
          /\ Len(sensorPorts') = 4 /\ Len(motorPorts') = 4
          /\ \A i \in 0..3 :
                At(last'.data, 5 + i) = undefined => sensorPorts'[i + 1] = "none"
          /\ \A j \in 0..3 :
                At(last'.data, 21 + j) = undefined =>
                    /\ motorPorts'[j + 1] = "none"
                    /\ motors'[j + 1] = Null
      ]_vars
\* The second device list ends after the code of motor port B: the motor
\* of port C is dropped and the motor of port A is kept.
C38_Witness ==
    /\ last.op = "onMessage"
    /\ Len(last.data) = 23
    /\ ~updateDevices
    /\ last.was[3] # Null
    /\ motors[3] = Null
    /\ motorPorts = <<"largeMotor", "none", "none", "none">>
    /\ motors[1] # Null
    /\ sensorPorts = <<"touch", "touch", "none", "none">>
====
